---- MODULE Spec2Model ----
(***************************************************************************)
(* Model of micropayment_core/scripts.py: the deposit and commit script    *)
(* templates, their validation and field accessors, and the scoped         *)
(* registration of script matchers during the sign_* calls.                *)
(*                                                                         *)
(* Representation.  A binary script is a sequence of bytes (0..255).  A    *)
(* hex string is a sequence of hex digits (0..15), so that b2h and h2b are *)
(* real conversions; the decimal string of an integer is the sequence of   *)
(* its decimal digits.  An assembly text is the sequence of its            *)
(* whitespace-separated tokens: Name("OP_IF") for an opcode name and       *)
(* PyStr(digits) for any other text.  Python's None is the tuple <<-1>>,   *)
(* which is no byte string.                                                *)
(* A call that may raise returns a record [exc |-> name, val |-> value]    *)
(* with exc = "ok" when it returns normally.  Asserts are enabled (the     *)
(* interpreter does not run with -O).                                      *)
(***************************************************************************)
EXTENDS Integers, Sequences, FiniteSets, TLC

VARIABLES
  build,       \* the interpreter the module runs on: "py2" or "py3"
  theScript,   \* the hex script the script-layer functions are applied to
  origin,      \* how theScript was made: the compile arguments, and whether
               \* it is still the compiled script (pristine)
  res,         \* the last script-layer call: [op, arg, out]
  SUBCLASSES,  \* pycoin.tx.pay_to.SUBCLASSES, the process-wide matcher list
  calls        \* per thread, the sign_* call it is executing and where

vars == <<build, theScript, origin, res, SUBCLASSES, calls>>

signVars == <<SUBCLASSES, calls>>

scriptVars == <<theScript, origin, res>>

None == <<-1>>

Ok(v) == [exc |-> "ok", val |-> v]

Raise(e) == [exc |-> e, val |-> None]

\* a value computed once and named for the rest of a computation
With(value, Rest(_)) == CHOOSE y \in {Rest(x) : x \in {value}} : TRUE

\* a call whose exception propagates; the rest runs on the value returned
Try(call, Rest(_)) ==
  With(call, LAMBDA r : IF r.exc # "ok" THEN r ELSE Rest(r.val))

\* the opcode names the templates use, with their byte values (pycoin
\* tools.OPCODE_TO_INT, the standard Bitcoin table)
OPCODE_TO_INT ==
  [ OP_0 |-> 0, OP_PUSHDATA1 |-> 76, OP_PUSHDATA2 |-> 77, OP_PUSHDATA4 |-> 78,
    OP_1 |-> 81, OP_2 |-> 82, OP_16 |-> 96,
    OP_IF |-> 99, OP_ELSE |-> 103, OP_ENDIF |-> 104, OP_RETURN |-> 106,
    OP_DROP |-> 117, OP_DUP |-> 118, OP_EQUAL |-> 135,
    OP_EQUALVERIFY |-> 136, OP_HASH160 |-> 169,
    OP_CHECKSIG |-> 172, OP_CHECKMULTISIG |-> 174, OP_NOP3 |-> 178,
    OP_NULLDATA |-> 252, OP_PUBKEYHASH |-> 253, OP_PUBKEY |-> 254 ]

MAX_SEQUENCE == 65535

\* ------------------------------------------------------------------ bytes

Min(a, b) == IF a < b THEN a ELSE b

\* Python's s[a:b] on a 0-based sequence, for 0 <= a
Slice(s, a, b) == SubSeq(s, a + 1, Min(b, Len(s)))

\* a sequence given as a function, as a tuple
Tuple(f, n) == SubSeq(f, 1, n)

Reverse(s) == Tuple([i \in 1..Len(s) |-> s[Len(s) + 1 - i]], Len(s))

\* b2h: two hex digits per byte, high digit first
b2h(bin) == Tuple([i \in 1..(2 * Len(bin)) |->
                     IF i % 2 = 1 THEN bin[(i + 1) \div 2] \div 16
                                  ELSE bin[i \div 2] % 16],
                  2 * Len(bin))

\* h2b (binascii.unhexlify): defined on an even number of hex digits
h2b(hex) == Tuple([i \in 1..(Len(hex) \div 2) |->
                     16 * hex[2 * i - 1] + hex[2 * i]],
                  Len(hex) \div 2)

\* "deadbeef"
DEADBEEF == <<13, 14, 10, 13, 11, 14, 14, 15>>

\* str(n) for a natural number n: its decimal digits
RECURSIVE DecDigits(_)
DecDigits(n) == IF n < 10 THEN <<n>> ELSE Append(DecDigits(n \div 10), n % 10)

\* str(x) as the templates apply it to the time argument: an int is
\* formatted in decimal, a str ("deadbeef") is kept
str(x) == IF x.t = "int" THEN [t |-> "str", v |-> DecDigits(x.v)] ELSE x

PyInt(n) == [t |-> "int", v |-> n]

PyStr(s) == [t |-> "str", v |-> s]

\* --------------------------------------------- pycoin tx.script.tools

\* tools.get_opcode(script, pc) -> (opcode, data, pc), for pc < len(script).
\* A push that runs past the end of the script yields the bytes that are
\* there (Python slicing) and a pc beyond the end.
from_bytes_le(s) ==
  LET RECURSIVE F(_)
      F(i) == IF i > Len(s) THEN 0 ELSE s[i] + 256 * F(i + 1)
  IN F(1)

get_opcode(script, pc) ==
  With(script[pc + 1], LAMBDA opcode :
    IF opcode > OPCODE_TO_INT.OP_PUSHDATA4
      THEN [opcode |-> opcode, data |-> None, pc |-> pc + 1]
      ELSE With(CASE opcode < OPCODE_TO_INT.OP_PUSHDATA1 -> 0
                  [] opcode = OPCODE_TO_INT.OP_PUSHDATA1 -> 1
                  [] opcode = OPCODE_TO_INT.OP_PUSHDATA2 -> 2
                  [] OTHER -> 4,
                LAMBDA lenBytes :
             With(IF opcode < OPCODE_TO_INT.OP_PUSHDATA1
                    THEN opcode
                    ELSE from_bytes_le(Slice(script, pc + 1,
                                             pc + 1 + lenBytes)),
                  LAMBDA size :
               [opcode |-> opcode,
                data   |-> Slice(script, pc + 1 + lenBytes,
                                 pc + 1 + lenBytes + size),
                pc     |-> pc + 1 + lenBytes + size])))

\* tools.int_to_script_bytes(v): little-endian magnitude, sign in the top
\* bit of the last byte
RECURSIVE MagnitudeLE(_)
MagnitudeLE(v) == IF v < 256 THEN <<v>> ELSE <<v % 256>> \o MagnitudeLE(v \div 256)

int_to_script_bytes(v) ==
  IF v = 0 THEN <<>>
  ELSE With(MagnitudeLE(IF v < 0 THEN -v ELSE v), LAMBDA l :
         IF l[Len(l)] >= 128 THEN Append(l, IF v < 0 THEN 128 ELSE 0)
         ELSE IF v < 0 THEN [l EXCEPT ![Len(l)] = l[Len(l)] + 128]
         ELSE l)

\* tools.int_from_script_bytes(s): the inverse decoding
int_from_script_bytes(s) ==
  IF Len(s) = 0 THEN 0
  ELSE LET RECURSIVE Acc(_, _, _)
           Acc(r, v, i) ==
             IF i > Len(r) THEN v ELSE Acc(r, v * 256 + r[i], i + 1)
       IN With(Reverse(s), LAMBDA r :
            With(Acc(r, r[1] % 128, 2), LAMBDA v :
              IF r[1] >= 128 THEN -v ELSE v))

\* tools.write_push_data for one item: OP_0 for the empty string, the
\* opcode OP_1 - 1 + v for a single byte v <= 16, else the shortest push
write_push_data(d) ==
  CASE Len(d) = 0 -> <<OPCODE_TO_INT.OP_0>>
    [] Len(d) = 1 /\ d[1] <= 16 -> <<OPCODE_TO_INT.OP_1 - 1 + d[1]>>
    [] Len(d) = 1 /\ d[1] > 16 -> <<1, d[1]>>
    [] Len(d) \in 2..75 -> <<Len(d)>> \o d
    [] Len(d) \in 76..255 -> <<OPCODE_TO_INT.OP_PUSHDATA1, Len(d)>> \o d
    [] OTHER -> <<OPCODE_TO_INT.OP_PUSHDATA2, Len(d) % 256, Len(d) \div 256>> \o d

\* the tokens of an assembly text
Name(n) == [t |-> "name", v |-> n]

IsDecimal(s) == \A i \in 1..Len(s) : s[i] <= 9

\* int(t) for a decimal text of at most 9 digits
DecValue(s) ==
  LET RECURSIVE Acc(_, _)
      Acc(v, i) == IF i > Len(s) THEN v ELSE Acc(10 * v + s[i], i + 1)
  IN Acc(0, 1)

\* the decimal digits of 0xffffffffffffffff
U64_MAX_DIGITS == <<1,8,4,4,6,7,4,4,0,7,3,7,0,9,5,5,1,6,1,5>>

\* abs(int(t)) <= 0xffffffffffffffff for a decimal text without leading zero
FitsU64(s) ==
  \/ Len(s) < Len(U64_MAX_DIGITS)
  \/ /\ Len(s) = Len(U64_MAX_DIGITS)
     /\ \/ s = U64_MAX_DIGITS
        \/ \E i \in 1..Len(s) :
             /\ s[i] < U64_MAX_DIGITS[i]
             /\ \A j \in 1..(i - 1) : s[j] = U64_MAX_DIGITS[j]

\* the little-endian base-256 magnitude of a decimal text too long for
\* DecValue: repeated division of the digit string by 256
RECURSIVE DivDigits(_, _, _)
DivDigits(s, i, r) ==
  IF i > Len(s) THEN [q |-> <<>>, r |-> r]
  ELSE With(DivDigits(s, i + 1, (10 * r + s[i]) % 256), LAMBDA rest :
         [q |-> <<(10 * r + s[i]) \div 256>> \o rest.q, r |-> rest.r])

RECURSIVE StripZeros(_)
StripZeros(s) == IF Len(s) > 0 /\ s[1] = 0 THEN StripZeros(Tail(s)) ELSE s

RECURSIVE BigMagnitudeLE(_)
BigMagnitudeLE(s) ==
  With(DivDigits(s, 1, 0), LAMBDA d :
    With(StripZeros(d.q), LAMBDA q :
      IF Len(q) = 0 THEN <<d.r>> ELSE <<d.r>> \o BigMagnitudeLE(q)))

\* tools.compile_expression(t) for a text token: a decimal integer that
\* does not start with 0 and fits 64 bits is encoded as a script number,
\* anything else is unhexlified (an even number of hex digits)
compile_expression(s) ==
  IF IsDecimal(s) /\ s[1] # 0 /\ FitsU64(s)
    THEN IF Len(s) <= 9 THEN int_to_script_bytes(DecValue(s))
         ELSE With(BigMagnitudeLE(s), LAMBDA l :
                IF l[Len(l)] >= 128 THEN Append(l, 0) ELSE l)
    ELSE h2b(s)

\* "OP_%s" % t is an opcode name: t is the decimal text of 0..16
IsOpNumber(s) == \E n \in 0..16 : s = DecDigits(n)

compile_token(tok) ==
  IF tok.t = "name" THEN <<OPCODE_TO_INT[tok.v]>>
  ELSE IF IsOpNumber(tok.v)
    THEN With(DecValue(tok.v), LAMBDA n :
           <<IF n = 0 THEN OPCODE_TO_INT.OP_0
             ELSE OPCODE_TO_INT.OP_1 - 1 + n>>)
  ELSE write_push_data(compile_expression(tok.v))

\* tools.compile(s): the concatenation of the compiled tokens
RECURSIVE compile(_)
compile(asm) ==
  IF Len(asm) = 0 THEN <<>> ELSE compile_token(Head(asm)) \o compile(Tail(asm))

\* ------------------------------------------------------ script templates

\* DEPOSIT_SCRIPT.format(...): the tokens of the formatted template
DEPOSIT_SCRIPT(payer_pubkey, payee_pubkey, spend_secret_hash, expire_time) ==
  << Name("OP_IF"),
       PyStr(<<2>>), payer_pubkey, payee_pubkey, PyStr(<<2>>),
       Name("OP_CHECKMULTISIG"),
     Name("OP_ELSE"),
       Name("OP_IF"),
         Name("OP_HASH160"), spend_secret_hash, Name("OP_EQUALVERIFY"),
         payer_pubkey, Name("OP_CHECKSIG"),
       Name("OP_ELSE"),
         expire_time, Name("OP_NOP3"), Name("OP_DROP"),
         payer_pubkey, Name("OP_CHECKSIG"),
       Name("OP_ENDIF"),
     Name("OP_ENDIF") >>

\* COMMIT_SCRIPT.format(...)
COMMIT_SCRIPT(payer_pubkey, payee_pubkey, spend_secret_hash, revoke_secret_hash, delay_time) ==
  << Name("OP_IF"),
       delay_time, Name("OP_NOP3"), Name("OP_DROP"),
       Name("OP_HASH160"), spend_secret_hash, Name("OP_EQUALVERIFY"),
       payee_pubkey, Name("OP_CHECKSIG"),
     Name("OP_ELSE"),
       Name("OP_HASH160"), revoke_secret_hash, Name("OP_EQUALVERIFY"),
       payer_pubkey, Name("OP_CHECKSIG"),
     Name("OP_ENDIF") >>

EXPIRE_SCRIPTSIG(sig) == <<sig, Name("OP_0"), Name("OP_0")>>

CHANGE_SCRIPTSIG(sig, secret) == <<sig, secret, Name("OP_1"), Name("OP_0")>>

COMMIT_SCRIPTSIG(payer_sig, payee_sig) ==
  <<Name("OP_0"), payer_sig, payee_sig, Name("OP_1")>>

PAYOUT_SCRIPTSIG(sig, spend_secret) == <<sig, spend_secret, Name("OP_1")>>

REVOKE_SCRIPTSIG(sig, revoke_secret) == <<sig, revoke_secret, Name("OP_0")>>

compile_deposit_script(payer_pubkey, payee_pubkey, spend_secret_hash, expire_time) ==
  b2h(compile(DEPOSIT_SCRIPT(payer_pubkey, payee_pubkey, spend_secret_hash,
                             str(expire_time))))

compile_commit_script(payer_pubkey, payee_pubkey, spend_secret_hash, revoke_secret_hash, delay_time) ==
  b2h(compile(COMMIT_SCRIPT(payer_pubkey, payee_pubkey, spend_secret_hash,
                            revoke_secret_hash, str(delay_time))))

\* ------------------------------------------------- get_word, _validate

\* get_word raising only when no word was decoded at all
get_word_last_when_short(script_bin, index) ==
  LET RECURSIVE Loop(_, _, _)
      Step(w, i) == Loop(w.pc, i + 1, w)
      Loop(pc, i, last) ==
        IF pc < Len(script_bin) /\ i <= index
          THEN Step(get_opcode(script_bin, pc), i)
          ELSE IF i = 0 THEN Raise("ValueError")
               ELSE Ok([opcode |-> last.opcode, data |-> last.data])
  IN Loop(0, 0, None)

\* get_word(script_bin, index): decode words from offset 0 while
\* pc < len(script_bin) and i <= index; ValueError unless index + 1 words
\* were decoded
get_word(script_bin, index) ==
  LET RECURSIVE Loop(_, _, _)
      Step(w, i) == Loop(w.pc, i + 1, w)
      Loop(pc, i, last) ==
        IF pc < Len(script_bin) /\ i <= index
          THEN Step(get_opcode(script_bin, pc), i)
          ELSE IF i # index + 1 THEN Raise("ValueError")
               ELSE Ok([opcode |-> last.opcode, data |-> last.data])
  IN Loop(0, 0, None)

\* _validate without the check that both scripts ended
_validate_no_end_check(reference_script_hex, untrusted_script_hex) ==
  LET RECURSIVE Loop(_, _, _, _)
      Step(ref_script_bin, untrusted_script_bin, r, u) ==
        IF r.data # None /\ b2h(r.data) = DEADBEEF
          THEN Loop(ref_script_bin, untrusted_script_bin, r.pc, u.pc)
          ELSE IF r.opcode # u.opcode \/ r.data # u.data
                 THEN Raise("InvalidScript")
                 ELSE Loop(ref_script_bin, untrusted_script_bin,
                           r.pc, u.pc)
      Loop(ref_script_bin, untrusted_script_bin, r_pc, u_pc) ==
        IF r_pc < Len(ref_script_bin) /\ u_pc < Len(untrusted_script_bin)
          THEN Step(ref_script_bin, untrusted_script_bin,
                    get_opcode(ref_script_bin, r_pc),
                    get_opcode(untrusted_script_bin, u_pc))
          ELSE Ok(None)
  IN With(h2b(reference_script_hex), LAMBDA ref_script_bin :
       With(h2b(untrusted_script_hex), LAMBDA untrusted_script_bin :
         Loop(ref_script_bin, untrusted_script_bin, 0, 0)))

\* _validate(reference_script_hex, untrusted_script_hex)
_validate(reference_script_hex, untrusted_script_hex) ==
  LET RECURSIVE Loop(_, _, _, _)
      Step(ref_script_bin, untrusted_script_bin, r, u) ==
        IF r.data # None /\ b2h(r.data) = DEADBEEF
          THEN Loop(ref_script_bin, untrusted_script_bin, r.pc, u.pc)
          ELSE IF r.opcode # u.opcode \/ r.data # u.data
                 THEN Raise("InvalidScript")
                 ELSE Loop(ref_script_bin, untrusted_script_bin,
                           r.pc, u.pc)
      Loop(ref_script_bin, untrusted_script_bin, r_pc, u_pc) ==
        IF r_pc < Len(ref_script_bin) /\ u_pc < Len(untrusted_script_bin)
          THEN Step(ref_script_bin, untrusted_script_bin,
                    get_opcode(ref_script_bin, r_pc),
                    get_opcode(untrusted_script_bin, u_pc))
          ELSE IF r_pc # Len(ref_script_bin)
                    \/ u_pc # Len(untrusted_script_bin)
                 THEN Raise("InvalidScript")
                 ELSE Ok(None)
  IN With(h2b(reference_script_hex), LAMBDA ref_script_bin :
       With(h2b(untrusted_script_hex), LAMBDA untrusted_script_bin :
         Loop(ref_script_bin, untrusted_script_bin, 0, 0)))

\* ------------------------------------------- validation and accessors

\* _parse_sequence_value checking only MAX_SEQUENCE >= value
_parse_sequence_value_no_floor(opcode, data) ==
  IF ~(opcode = 0 \/ (0 < opcode /\ opcode < 76)
         \/ (80 < opcode /\ opcode < 97))
    THEN IF build = "py3" THEN Raise("TypeError")
         ELSE Raise("InvalidSequenceValue")
    ELSE With(CASE opcode = 0 -> 0
                [] 0 < opcode /\ opcode < 76 -> int_from_script_bytes(data)
                [] OTHER -> opcode - 80,
              LAMBDA value :
           IF ~(MAX_SEQUENCE >= value)
             THEN Raise("InvalidSequenceValue")
             ELSE Ok(value))

\* _parse_sequence_value(opcode, data, disassembled).  For an opcode the
\* three branches leave out, value stays None and the comparison
\* MAX_SEQUENCE >= None >= 0 is False on Python 2 (InvalidSequenceValue)
\* and a TypeError on Python 3.
_parse_sequence_value(opcode, data) ==
  IF ~(opcode = 0 \/ (0 < opcode /\ opcode < 76)
         \/ (80 < opcode /\ opcode < 97))
    THEN IF build = "py3" THEN Raise("TypeError")
         ELSE Raise("InvalidSequenceValue")
    ELSE With(CASE opcode = 0 -> 0
                [] 0 < opcode /\ opcode < 76 -> int_from_script_bytes(data)
                [] OTHER -> opcode - 80,
              LAMBDA value :
           IF ~(MAX_SEQUENCE >= value /\ value >= 0)
             THEN Raise("InvalidSequenceValue")
             ELSE Ok(value))

DEADBEEF_STR == PyStr(DEADBEEF)

\* b2h(data) of a decoded word: binascii.hexlify(None) is a TypeError
b2h_data(data) == IF data = None THEN Raise("TypeError") ELSE Ok(b2h(data))

\* the body shared by the accessors that return the data of one word,
\* after their validate_*_script call returned v: get_word, b2h(data)
DataAccessor(v, script_hex, index) ==
  Try(v, LAMBDA none :
    Try(get_word(h2b(script_hex), index), LAMBDA w : b2h_data(w.data)))

\* the body shared by get_deposit_expire_time and get_commit_delay_time:
\* get_word, _parse_sequence_value
TimeAccessor(v, script_hex, index) ==
  Try(v, LAMBDA none :
    Try(get_word(h2b(script_hex), index), LAMBDA w :
      _parse_sequence_value(w.opcode, w.data)))

\* the reference scripts validate_deposit_script and validate_commit_script
\* compile on every call, with "deadbeef" in every slot
DepositReferenceHex ==
  compile_deposit_script(DEADBEEF_STR, DEADBEEF_STR, DEADBEEF_STR,
                         DEADBEEF_STR)

CommitReferenceHex ==
  compile_commit_script(DEADBEEF_STR, DEADBEEF_STR, DEADBEEF_STR,
                        DEADBEEF_STR, DEADBEEF_STR)

RECURSIVE validate_deposit_script(_, _), get_deposit_expire_time(_)
RECURSIVE validate_commit_script(_, _), get_commit_delay_time(_)

validate_deposit_script(deposit_script_hex, validate_expire_time) ==
  Try(_validate(DepositReferenceHex, deposit_script_hex), LAMBDA none :
    IF validate_expire_time
      THEN Try(get_deposit_expire_time(deposit_script_hex),
               LAMBDA expire_time : Ok(None))
      ELSE Ok(None))

validate_commit_script(commit_script_hex, validate_delay_time) ==
  Try(_validate(CommitReferenceHex, commit_script_hex), LAMBDA none :
    IF validate_delay_time
      THEN Try(get_commit_delay_time(commit_script_hex),
               LAMBDA delay_time : Ok(None))
      ELSE Ok(None))

\* get_commit_payer_pubkey reading the word of the payee key
get_commit_payer_pubkey_word7(script_hex) ==
  DataAccessor(validate_commit_script(script_hex, TRUE), script_hex, 7)

get_commit_payer_pubkey(script_hex) ==
  DataAccessor(validate_commit_script(script_hex, TRUE), script_hex, 13)

get_commit_payee_pubkey(script_hex) ==
  DataAccessor(validate_commit_script(script_hex, TRUE), script_hex, 7)

get_commit_delay_time(script_hex) ==
  TimeAccessor(validate_commit_script(script_hex, FALSE), script_hex, 1)

get_commit_spend_secret_hash(script_hex) ==
  DataAccessor(validate_commit_script(script_hex, TRUE), script_hex, 5)

get_commit_revoke_secret_hash(script_hex) ==
  DataAccessor(validate_commit_script(script_hex, TRUE), script_hex, 11)

get_deposit_payer_pubkey(script_hex) ==
  DataAccessor(validate_deposit_script(script_hex, TRUE), script_hex, 2)

get_deposit_payee_pubkey(script_hex) ==
  DataAccessor(validate_deposit_script(script_hex, TRUE), script_hex, 3)

get_deposit_expire_time(script_hex) ==
  TimeAccessor(validate_deposit_script(script_hex, FALSE), script_hex, 14)

get_deposit_spend_secret_hash(script_hex) ==
  DataAccessor(validate_deposit_script(script_hex, TRUE), script_hex, 9)

\* ------------------------------------------------------------ inputs

Rep(b, n) == Tuple([i \in 1..n |-> b], n)

\* two checksums of a byte string, standing for a cryptographic digest;
\* the sum over data[lo..hi] is taken by halves
RECURSIVE Checksum(_, _, _, _)
Checksum(data, lo, hi, weighted) ==
  IF lo > hi THEN 0
  ELSE IF lo = hi
    THEN (IF weighted THEN lo * data[lo] ELSE 3 * data[lo]) % 256
  ELSE LET mid == (lo + hi) \div 2
       IN (Checksum(data, lo, mid, weighted)
             + Checksum(data, mid + 1, hi, weighted)) % 256

Digest(data) ==
  <<(Checksum(data, 1, Len(data), FALSE) + Len(data)) % 256,
    Checksum(data, 1, Len(data), TRUE)>>

\* encoding.hash160 (RIPEMD160 of SHA256) is modelled as 20 bytes made of
\* the digest; it is injective on the keys, secrets and scripts of the model
hash160(data) ==
  LET d == Digest(data)
  IN Tuple([i \in 1..20 |-> d[2 - (i % 2)]], 20)

\* two 33-byte compressed SEC public keys, as hex
PAYER_SEC == <<2>> \o Rep(170, 32)

PAYEE_SEC == <<3>> \o Rep(187, 32)

PubKeys == {b2h(PAYER_SEC), b2h(PAYEE_SEC)}

\* two 32-byte secrets, as hex, and their hashes (the first hash has only
\* decimal digits in hex)
Secrets == {b2h(Rep(83, 32)), b2h(Rep(132, 32))}

SecretHashes == {b2h(hash160(h2b(x))) : x \in Secrets}

\* the time values tried: the edges of the encodings and every
\* TimeStride-th value of 0..MAX_SEQUENCE
TimeStride == 8191

EdgeTimes == {0, 1, 2, 16, 17, 127, 128, 255, 256, 1000, 32767, 32768, 65535}

Times == EdgeTimes \cup {t \in 0..MAX_SEQUENCE : t % TimeStride = 0}

\* ---------------------------------------------- the script-layer machine

\* ------------------------------------------- the registry and the calls

\* a script type of the registry: its class name, its TEMPLATE and the
\* identity of the class object (the thread whose handler created the
\* class, "pycoin" for the library's own)
ScriptClass(cls, TEMPLATE, id) ==
  [cls |-> cls, TEMPLATE |-> TEMPLATE, id |-> id]

\* pycoin.tx.pay_to.SUBCLASSES as imported
BuiltinSubclasses ==
  << ScriptClass("ScriptMultisig", None, "pycoin"),
     ScriptClass("ScriptPayToPublicKey",
                 compile(<<Name("OP_PUBKEY"), Name("OP_CHECKSIG")>>),
                 "pycoin"),
     ScriptClass("ScriptPayToAddress",
                 compile(<<Name("OP_DUP"), Name("OP_HASH160"),
                           Name("OP_PUBKEYHASH"), Name("OP_EQUALVERIFY"),
                           Name("OP_CHECKSIG")>>),
                 "pycoin"),
     ScriptClass("ScriptPayToScript",
                 compile(<<Name("OP_HASH160"), Name("OP_PUBKEYHASH"),
                           Name("OP_EQUAL")>>),
                 "pycoin"),
     ScriptClass("ScriptNulldata",
                 compile(<<Name("OP_RETURN"), Name("OP_NULLDATA")>>),
                 "pycoin") >>

\* the script_handler of a call that has made none
NoHandler == ScriptClass("none", <<>>, "none")

\* the threads of the host that may call sign_* functions
Threads == {"A", "B"}

\* a transaction with one input: the script of the output it spends and
\* the script of the input
Tx(unspent_script, script) ==
  [unspent_script |-> unspent_script, script |-> script]

NoTx == Tx(<<>>, <<>>)

\* a thread that is in no call.  pc is the statement the call is at; the
\* flags record what the call has done so far
IdleCall ==
  [pc |-> "idle", op |-> "none", wif |-> <<>>, rawtx |-> NoTx,
   script_hex |-> <<>>, secret |-> <<>>,
   tx |-> NoTx, script_handler |-> NoHandler,
   exc |-> "ok", out |-> None,
   loaded |-> FALSE, pushed |-> FALSE, signer |-> FALSE, created |-> <<>>]

NoOrigin == [kind |-> "none", payer_pubkey |-> <<>>, payee_pubkey |-> <<>>,
             spend_secret_hash |-> <<>>, revoke_secret_hash |-> <<>>,
             time |-> 0, pristine |-> FALSE]

NoRes == [op |-> "none", arg |-> None, out |-> Ok(None)]

ScriptInit ==
  /\ build \in {"py2", "py3"}
  /\ theScript = <<>>
  /\ origin = NoOrigin
  /\ res = NoRes
  /\ SUBCLASSES = BuiltinSubclasses
  /\ calls = [t \in Threads |-> IdleCall]

\* compile_deposit_script applied to sampled arguments
CompileDeposit ==
  /\ origin.kind = "none"
  /\ res.op = "none"
  /\ \E payer \in PubKeys, payee \in PubKeys, ssh \in SecretHashes,
        t \in Times :
       /\ theScript' = compile_deposit_script(PyStr(payer), PyStr(payee),
                                              PyStr(ssh), PyInt(t))
       /\ origin' = [kind |-> "deposit", payer_pubkey |-> payer,
                     payee_pubkey |-> payee, spend_secret_hash |-> ssh,
                     revoke_secret_hash |-> <<>>, time |-> t,
                     pristine |-> TRUE]
  /\ res' = NoRes
  /\ UNCHANGED build
  /\ UNCHANGED signVars

\* compile_commit_script applied to sampled arguments
CompileCommit ==
  /\ origin.kind = "none"
  /\ res.op = "none"
  /\ \E payer \in PubKeys, payee \in PubKeys, ssh \in SecretHashes,
        rsh \in SecretHashes, t \in Times :
       /\ theScript' = compile_commit_script(PyStr(payer), PyStr(payee),
                                             PyStr(ssh), PyStr(rsh), PyInt(t))
       /\ origin' = [kind |-> "commit", payer_pubkey |-> payer,
                     payee_pubkey |-> payee, spend_secret_hash |-> ssh,
                     revoke_secret_hash |-> rsh, time |-> t,
                     pristine |-> TRUE]
  /\ res' = NoRes
  /\ UNCHANGED build
  /\ UNCHANGED signVars

\* a field accessor applied to theScript
Accessors ==
  {"get_deposit_payer_pubkey", "get_deposit_payee_pubkey",
   "get_deposit_spend_secret_hash", "get_deposit_expire_time",
   "get_commit_payer_pubkey", "get_commit_payee_pubkey",
   "get_commit_spend_secret_hash", "get_commit_revoke_secret_hash",
   "get_commit_delay_time"}

AccessorsOf(kind) ==
  IF kind = "deposit"
    THEN {"get_deposit_payer_pubkey", "get_deposit_payee_pubkey",
          "get_deposit_spend_secret_hash", "get_deposit_expire_time"}
    ELSE Accessors \ {"get_deposit_payer_pubkey", "get_deposit_payee_pubkey",
                      "get_deposit_spend_secret_hash",
                      "get_deposit_expire_time"}

ApplyAccessor(name, script_hex) ==
  CASE name = "get_deposit_payer_pubkey" -> get_deposit_payer_pubkey(script_hex)
    [] name = "get_deposit_payee_pubkey" -> get_deposit_payee_pubkey(script_hex)
    [] name = "get_deposit_spend_secret_hash" ->
         get_deposit_spend_secret_hash(script_hex)
    [] name = "get_deposit_expire_time" -> get_deposit_expire_time(script_hex)
    [] name = "get_commit_payer_pubkey" -> get_commit_payer_pubkey(script_hex)
    [] name = "get_commit_payee_pubkey" -> get_commit_payee_pubkey(script_hex)
    [] name = "get_commit_spend_secret_hash" ->
         get_commit_spend_secret_hash(script_hex)
    [] name = "get_commit_revoke_secret_hash" ->
         get_commit_revoke_secret_hash(script_hex)
    [] OTHER -> get_commit_delay_time(script_hex)

Access ==
  /\ origin.kind # "none"
  /\ res.op = "none"
  /\ \E name \in AccessorsOf(origin.kind) :
       res' = [op |-> name, arg |-> None,
               out |-> ApplyAccessor(name, theScript)]
  /\ UNCHANGED <<build, theScript, origin>>
  /\ UNCHANGED signVars

\* the words of a binary script with the offsets they span
\* (bin[from + 1 .. to] in TLA+ indices), decoded from offset 0
RECURSIVE WordsFrom(_, _)
WordsFrom(bin, pc) ==
  LET Word(w) == [opcode |-> w.opcode, data |-> w.data, from |-> pc,
                  to |-> Min(w.pc, Len(bin))]
      Step(w) == <<Word(w)>> \o WordsFrom(bin, w.pc)
  IN IF pc >= Len(bin) THEN <<>> ELSE Step(get_opcode(bin, pc))

Words(bin) == WordsFrom(bin, 0)

\* the untrusted scripts tried: a compiled script of the first key pair
\* and first hashes, with a time of MutTimes, changed in one place
MutTimes == {1000}

MutDeltas == {1, 128}

NewWords == {<<0>>, <<1, 5>>, <<3, 0, 0, 1>>, <<76, 1, 5>>, <<80>>, <<81>>,
             <<97>>, <<118>>, <<172>>}

Mutable ==
  /\ origin.pristine
  /\ res.op = "none"
  /\ origin.time \in MutTimes
  /\ origin.payer_pubkey = b2h(PAYER_SEC)
  /\ origin.payee_pubkey = b2h(PAYEE_SEC)
  /\ origin.spend_secret_hash = b2h(hash160(Rep(83, 32)))
  /\ origin.revoke_secret_hash \in {<<>>, b2h(hash160(Rep(132, 32)))}

\* one byte of the script is changed
MutateByte ==
  /\ Mutable
  /\ \E pos \in 1..(Len(theScript) \div 2), d \in MutDeltas :
       theScript' = b2h([h2b(theScript) EXCEPT ![pos] = (@ + d) % 256])
  /\ origin' = [origin EXCEPT !.pristine = FALSE]
  /\ UNCHANGED <<build, res>>
  /\ UNCHANGED signVars

\* one word of the script is replaced by another word
ReplaceWord ==
  /\ Mutable
  /\ LET bin == h2b(theScript)
         ws  == Words(bin)
     IN \E i \in 1..Len(ws), w \in NewWords :
          theScript' = b2h(SubSeq(bin, 1, ws[i].from) \o w
                           \o SubSeq(bin, ws[i].to + 1, Len(bin)))
  /\ origin' = [origin EXCEPT !.pristine = FALSE]
  /\ UNCHANGED <<build, res>>
  /\ UNCHANGED signVars

\* one word of the script is removed
RemoveWord ==
  /\ Mutable
  /\ LET bin == h2b(theScript)
         ws  == Words(bin)
     IN \E i \in 1..Len(ws) :
          theScript' = b2h(SubSeq(bin, 1, ws[i].from)
                           \o SubSeq(bin, ws[i].to + 1, Len(bin)))
  /\ origin' = [origin EXCEPT !.pristine = FALSE]
  /\ UNCHANGED <<build, res>>
  /\ UNCHANGED signVars

\* a word is appended to the script
AppendWord ==
  /\ Mutable
  /\ \E w \in NewWords : theScript' = b2h(h2b(theScript) \o w)
  /\ origin' = [origin EXCEPT !.pristine = FALSE]
  /\ UNCHANGED <<build, res>>
  /\ UNCHANGED signVars

\* validate_deposit_script / validate_commit_script applied to theScript
Validate ==
  /\ origin.kind # "none"
  /\ res.op = "none"
  /\ \E kind \in {"deposit", "commit"}, check_time \in BOOLEAN :
       res' = [op  |-> IF kind = "deposit" THEN "validate_deposit_script"
                       ELSE "validate_commit_script",
               arg |-> [check_time |-> check_time],
               out |-> IF kind = "deposit"
                         THEN validate_deposit_script(theScript, check_time)
                         ELSE validate_commit_script(theScript, check_time)]
  /\ UNCHANGED <<build, theScript, origin>>
  /\ UNCHANGED signVars

\* the (opcode, data) pairs _parse_sequence_value is tried on: data of up
\* to MaxSeqLen bytes under a direct-push opcode, and the opcodes around
\* the edges of its three branches without data
MaxSeqLen == 3

SeqBytes == {0, 1, 127, 128, 255}

RECURSIVE SeqDatas(_)
SeqDatas(n) ==
  IF n = 0 THEN {<<>>}
  ELSE SeqDatas(n - 1)
         \cup {Append(d, b) : d \in {x \in SeqDatas(n - 1) : Len(x) = n - 1},
                              b \in SeqBytes}

SeqInputs ==
  {[opcode |-> o, data |-> d] : o \in (1..MaxSeqLen) \cup {75},
                                d \in SeqDatas(MaxSeqLen)}
    \cup {[opcode |-> 0, data |-> <<>>]}
    \cup {[opcode |-> o, data |-> <<5>>] : o \in {76, 77, 78}}
    \cup {[opcode |-> o, data |-> None] :
            o \in {79, 80, 81, 82, 95, 96, 97, 118, 178, 255}}

ParseSequenceValue ==
  /\ origin.kind = "none"
  /\ res.op = "none"
  /\ \E in \in SeqInputs :
       res' = [op |-> "_parse_sequence_value", arg |-> in,
               out |-> _parse_sequence_value(in.opcode, in.data)]
  /\ UNCHANGED <<build, theScript, origin>>
  /\ UNCHANGED signVars

\* the scripts get_word is tried on: every byte prefix of a deposit script
\* (the empty script, whole words, pushes cut short), a commit script and
\* scripts of PUSHDATA words, each with the indices 0..MaxWordIndex
MaxWordIndex == 21

GetWordScripts ==
  With(h2b(compile_deposit_script(PyStr(b2h(PAYER_SEC)), PyStr(b2h(PAYEE_SEC)),
                                  PyStr(b2h(hash160(Rep(83, 32)))),
                                  PyInt(1000))),
       LAMBDA deposit_bin :
    {SubSeq(deposit_bin, 1, n) : n \in 0..Len(deposit_bin)})
    \cup {h2b(compile_commit_script(PyStr(b2h(PAYER_SEC)),
                                    PyStr(b2h(PAYEE_SEC)),
                                    PyStr(b2h(hash160(Rep(83, 32)))),
                                    PyStr(b2h(hash160(Rep(132, 32)))),
                                    PyInt(5)))}
    \cup {<<76, 1, 5, 81>>, <<76, 2, 5>>, <<77, 1, 0, 5, 0>>, <<79, 80, 97>>}

GetWord ==
  /\ origin.kind = "none"
  /\ res.op = "none"
  /\ \E script_bin \in GetWordScripts, index \in 0..MaxWordIndex :
       res' = [op |-> "get_word",
               arg |-> [script_bin |-> script_bin, index |-> index],
               out |-> get_word(script_bin, index)]
  /\ UNCHANGED <<build, theScript, origin>>
  /\ UNCHANGED signVars

\* -------------------------------------------------------- signatures

\* ECDSA is modelled symbolically.  A DER signature is 0x30, the length of
\* the rest, two bytes naming the signing key (the first two bytes of its
\* SEC encoding), the signed value, and DerPadding; a signature blob is
\* the DER signature followed by the hash-type byte.
SIGHASH_ALL == 1

DerPadding == <<7, 7, 7, 7, 7>>

\* signature_for_hash_type_f(hash_type, script): the value that is signed
signature_hash(hash_type, script_bin) == <<hash_type>> \o Digest(script_bin)

\* ScriptType._create_script_signature: sign the hash of script_to_hash
\* under signature_type and append the type byte
create_script_signature(key_sec, signature_type, script_to_hash) ==
  LET body == SubSeq(key_sec, 1, 2)
                \o signature_hash(signature_type, script_to_hash)
                \o DerPadding
  IN <<48, Len(body)>> \o body \o <<signature_type>>

\* der.sigdecode_der: UnexpectedDER unless the bytes are a DER sequence
IsDER(der) == Len(der) >= 2 /\ der[1] = 48 /\ der[2] = Len(der) - 2

\* ecdsa.verify(generator, public_pair, sign_value, sig_r_s)
ecdsa_verify(pubkey_sec, sign_value, der) ==
  /\ Len(der) >= 4 + Len(sign_value)
  /\ SubSeq(der, 3, 4) = SubSeq(pubkey_sec, 1, 2)
  /\ SubSeq(der, 5, 4 + Len(sign_value)) = sign_value

\* ------------------------------------------------------ get_spend_secret

\* _compile_payout_scriptsig(sig, spend_secret, commit_script_hex)
_compile_payout_scriptsig(sig, spend_secret, commit_script_hex) ==
  Try(validate_commit_script(commit_script_hex, TRUE), LAMBDA none :
    Ok(b2h(compile(PAYOUT_SCRIPTSIG(sig, spend_secret)
                     \o <<PyStr(commit_script_hex)>>))))

\* _validate_payout_scriptsig(payout_script_hex, commit_script_hex)
_validate_payout_scriptsig(payout_script_hex, commit_script_hex) ==
  Try(_compile_payout_scriptsig(DEADBEEF_STR, DEADBEEF_STR,
                                commit_script_hex),
      LAMBDA reference_script_hex :
        _validate(reference_script_hex, payout_script_hex))

\* get_spend_secret(payout_rawtx, commit_script_hex); the transaction is
\* given by spend_script_bin, the script of its input 0.  A returned None
\* is Ok(None).
get_spend_secret(spend_script_bin, commit_script_hex) ==
  Try(validate_commit_script(commit_script_hex, TRUE), LAMBDA none :
    With(_validate_payout_scriptsig(b2h(spend_script_bin),
                                    commit_script_hex),
         LAMBDA p :
      IF p.exc = "InvalidScript" THEN Ok(None)
      ELSE IF p.exc # "ok" THEN p
      ELSE Try(get_word(spend_script_bin, 3), LAMBDA w3 :
             Try(get_word(spend_script_bin, 1), LAMBDA spend_secret :
               b2h_data(spend_secret.data)))))

\* the scripts of input 0 tried: four words, each as a payout scriptSig
\* has it or differently
PayoutSig ==
  create_script_signature(PAYEE_SEC, SIGHASH_ALL, h2b(theScript))

OtherCommit ==
  h2b(compile_commit_script(PyStr(b2h(PAYEE_SEC)), PyStr(b2h(PAYER_SEC)),
                            PyStr(b2h(hash160(Rep(83, 32)))),
                            PyStr(b2h(hash160(Rep(132, 32)))), PyInt(5)))

SpendScripts ==
  {[bin    |-> w1 \o w2 \o w3 \o w4,
    payout |-> /\ w2[1] = 32
               /\ b2h(hash160(SubSeq(w2, 2, 33))) = origin.spend_secret_hash
               /\ w3 = <<OPCODE_TO_INT.OP_1>>
               /\ w4 = write_push_data(h2b(theScript)),
    word1  |-> w2] :
     w1 \in {write_push_data(PayoutSig)},
     w2 \in {write_push_data(h2b(x)) : x \in Secrets}
              \cup {<<OPCODE_TO_INT.OP_DUP>>, <<OPCODE_TO_INT.OP_0>>},
     w3 \in {<<OPCODE_TO_INT.OP_1>>, <<OPCODE_TO_INT.OP_0>>},
     w4 \in {write_push_data(h2b(theScript)), write_push_data(OtherCommit),
             <<>>}}

GetSpendSecret ==
  /\ Mutable
  /\ origin.kind = "commit"
  /\ \E in \in SpendScripts :
       res' = [op |-> "get_spend_secret", arg |-> in,
               out |-> get_spend_secret(in.bin, theScript)]
  /\ UNCHANGED <<build, theScript, origin>>
  /\ UNCHANGED signVars

ScriptNext ==
  \/ CompileDeposit \/ CompileCommit
  \/ MutateByte \/ ReplaceWord \/ RemoveWord \/ AppendWord
  \/ Validate \/ Access \/ ParseSequenceValue \/ GetSpendSecret
  \/ GetWord

ScriptSpec == ScriptInit /\ [][ScriptNext]_vars

\* ------------------------------------------------------- pycoin signer

\* dict.get(key): None when the key is missing
Get(dict, key) == IF key \in DOMAIN dict THEN dict[key] ELSE None

\* build_hash160_lookup(secret_exponents): hash160 of the public key to
\* the private key.  A key pair is named by its SEC encoding.
build_hash160_lookup(keys) ==
  [h \in {hash160(k) : k \in keys} |-> CHOOSE k \in keys : hash160(k) = h]

\* build_p2sh_lookup(scripts): hash160 of a script to the script
build_p2sh_lookup(scripts) ==
  [h \in {hash160(x) : x \in scripts} |->
     CHOOSE x \in scripts : hash160(x) = h]

\* _make_lookups(wif, script_hex)
_make_lookups(wif, script_hex) ==
  LET script_bin == h2b(script_hex)
      key == wif
  IN [hash160_lookup |-> build_hash160_lookup({key}),
      p2sh_lookup |-> build_p2sh_lookup({script_bin})]

\* ScriptType.match(script): walk the script and the class's TEMPLATE word
\* by word; OP_PUBKEY, OP_PUBKEYHASH and OP_NULLDATA of the template capture
\* a push of fitting length, any other word must be equal
NoMatch == [PUBKEY_LIST |-> <<>>, PUBKEYHASH_LIST |-> <<>>,
            NULLDATA_LIST |-> <<>>]

RECURSIVE match_loop(_, _, _, _, _)
match_loop(template, script, pc1, pc2, r) ==
  LET Step(w1, w2, l1) ==
        CASE w2.opcode = OPCODE_TO_INT.OP_PUBKEY ->
               IF l1 < 33 \/ l1 > 120 THEN Raise("ValueError")
               ELSE match_loop(template, script, w1.pc, w2.pc,
                      [r EXCEPT !.PUBKEY_LIST = Append(@, w1.data)])
          [] w2.opcode = OPCODE_TO_INT.OP_PUBKEYHASH ->
               IF l1 # 20 THEN Raise("ValueError")
               ELSE match_loop(template, script, w1.pc, w2.pc,
                      [r EXCEPT !.PUBKEYHASH_LIST = Append(@, w1.data)])
          [] w2.opcode = OPCODE_TO_INT.OP_NULLDATA ->
               IF ~(0 < l1 /\ l1 <= 40) THEN Raise("ValueError")
               ELSE match_loop(template, script, w1.pc, w2.pc,
                      [r EXCEPT !.NULLDATA_LIST = Append(@, w1.data)])
          [] OTHER ->
               IF w1.opcode # w2.opcode \/ w1.data # w2.data
                 THEN Raise("ValueError")
                 ELSE match_loop(template, script, w1.pc, w2.pc, r)
      Length(w1) == IF w1.data = None THEN 0 ELSE Len(w1.data)
      Words2(w1, w2) == Step(w1, w2, Length(w1))
  IN IF pc1 = Len(script) /\ pc2 = Len(template) THEN Ok(r)
     ELSE IF pc1 >= Len(script) \/ pc2 >= Len(template)
       THEN Raise("ValueError")
     ELSE Words2(get_opcode(script, pc1), get_opcode(template, pc2))

match(cls, script) == match_loop(cls.TEMPLATE, script, 0, 0, NoMatch)

\* the result of a solve method: the solution or the exception, and the
\* signatures _create_sig made on the way
Solved(solution, created) ==
  [exc |-> "ok", val |-> solution, created |-> created]

Unsolved(exc, created) == [exc |-> exc, val |-> None, created |-> created]

\* a call inside a solve method whose exception propagates
TrySolve(call, created, Rest(_)) ==
  With(call, LAMBDA r : IF r.exc # "ok" THEN Unsolved(r.exc, created)
                        ELSE Rest(r.val))

\* ScriptType.DEFAULT_PLACEHOLDER_SIGNATURE: a DER signature of the largest
\* r and s with hash type SIGHASH_ALL
DEFAULT_PLACEHOLDER_SIGNATURE ==
  <<48, 10>> \o Rep(255, 5) \o DerPadding \o <<SIGHASH_ALL>>

\* _AbsScript._create_sig(secret_exponent, **kwargs)
_create_sig(secret_exponent, kwargs) ==
  create_script_signature(secret_exponent, kwargs.signature_type,
                          kwargs.script_to_hash)

\* parse_signature_blob(sig_blob): sigdecode_der(sig_blob[:-1]) and
\* ord(sig_blob[-1:])
parse_signature_blob(sig_blob) ==
  IF sig_blob = None THEN Raise("TypeError")
  ELSE With(SubSeq(sig_blob, 1, Len(sig_blob) - 1), LAMBDA der :
         IF ~IsDER(der) THEN Raise("UnexpectedDER")
         ELSE Ok([sig_r_s |-> der,
                  signature_type |-> sig_blob[Len(sig_blob)]]))

\* _compile_commit_scriptsig(payer_sig, payee_sig, deposit_script_hex)
_compile_commit_scriptsig(payer_sig, payee_sig, deposit_script_hex) ==
  Try(validate_deposit_script(deposit_script_hex, TRUE), LAMBDA none :
    Ok(b2h(compile(COMMIT_SCRIPTSIG(payer_sig, payee_sig)
                     \o <<PyStr(deposit_script_hex)>>))))

\* ------------------------------------------------- the deposit matcher

\* _AbsDepositScript.__init__
_AbsDepositScript(payer_sec, payee_sec, spend_secret_hash, expire_time) ==
  [cls |-> "DepositScript", payer_sec |-> payer_sec,
   payee_sec |-> payee_sec, spend_secret_hash |-> spend_secret_hash,
   expire_time |-> expire_time,
   script |-> h2b(compile_deposit_script(
                PyStr(b2h(payer_sec)), PyStr(b2h(payee_sec)),
                PyStr(spend_secret_hash), PyInt(expire_time)))]

\* _AbsDepositScript.from_script(cls, script)
_AbsDepositScript_from_script(cls, script) ==
  Try(match(cls, script), LAMBDA r :
    IF r = NoMatch THEN Raise("ValueError")
    ELSE LET payer_sec == r.PUBKEY_LIST[1]
             payee_sec == r.PUBKEY_LIST[2]
             spend_secret_hash == b2h(r.PUBKEYHASH_LIST[1])
         IN IF payer_sec # r.PUBKEY_LIST[3] \/ payer_sec # r.PUBKEY_LIST[4]
              THEN Raise("AssertionError")
            ELSE Try(get_deposit_expire_time(b2h(cls.TEMPLATE)),
                     LAMBDA expire_time :
                   With(_AbsDepositScript(payer_sec, payee_sec,
                                          spend_secret_hash, expire_time),
                        LAMBDA obj :
                     IF obj.script # script THEN Raise("AssertionError")
                     ELSE Ok(obj))))

\* _AbsDepositScript.solve_expire
solve_expire(self, kwargs) ==
  With(Get(kwargs.hash160_lookup, hash160(self.payer_sec)),
       LAMBDA private_key :
    IF private_key = None THEN Unsolved("TypeError", <<>>)
    ELSE With(_create_sig(private_key, kwargs), LAMBDA sig :
           Solved(compile(EXPIRE_SCRIPTSIG(PyStr(b2h(sig)))), <<sig>>)))

\* _AbsDepositScript.solve_change
solve_change(self, kwargs) ==
  With(Get(kwargs.hash160_lookup, hash160(self.payer_sec)),
       LAMBDA private_key :
    IF private_key = None THEN Unsolved("TypeError", <<>>)
    ELSE With(_create_sig(private_key, kwargs), LAMBDA sig :
           TrySolve(get_deposit_spend_secret_hash(b2h(self.script)),
                    <<sig>>, LAMBDA spend_secret_hash :
             LET spend_secret == kwargs.spend_secret
                 provided_spend_secret_hash ==
                   b2h(hash160(h2b(spend_secret)))
             IN IF spend_secret_hash # provided_spend_secret_hash
                  THEN Unsolved("AssertionError", <<sig>>)
                  ELSE Solved(compile(CHANGE_SCRIPTSIG(
                                PyStr(b2h(sig)), PyStr(spend_secret))),
                              <<sig>>))))

\* _AbsDepositScript.solve_create_commit
solve_create_commit(self, kwargs) ==
  With(Get(kwargs.hash160_lookup, hash160(self.payer_sec)),
       LAMBDA private_key :
    IF private_key = None THEN Unsolved("TypeError", <<>>)
    ELSE With(_create_sig(private_key, kwargs), LAMBDA sig :
           LET signature_placeholder == DEFAULT_PLACEHOLDER_SIGNATURE
           IN Solved(compile(COMMIT_SCRIPTSIG(
                       PyStr(b2h(sig)), PyStr(b2h(signature_placeholder)))),
                     <<sig>>)))

\* solve_finalize_commit signing without ecdsa.verify of the payer signature
solve_finalize_commit_unverified(self, kwargs) ==
  LET signature_type == kwargs.signature_type
      existing_script == kwargs.existing_script
  IN TrySolve(_compile_commit_scriptsig(DEADBEEF_STR, DEADBEEF_STR,
                                        b2h(self.script)),
              <<>>, LAMBDA reference_script_hex :
     TrySolve(_validate(reference_script_hex, b2h(existing_script)),
              <<>>, LAMBDA none :
     With(get_opcode(existing_script, 0), LAMBDA w0 :
     With(get_opcode(existing_script, w0.pc).data, LAMBDA payer_sig :
     With(parse_signature_blob(payer_sig), LAMBDA parsed :
       IF parsed.exc = "UnexpectedDER"
         THEN Unsolved("InvalidPayerSignature", <<>>)
       ELSE IF parsed.exc # "ok" THEN Unsolved(parsed.exc, <<>>)
       ELSE IF signature_type # parsed.val.signature_type
         THEN Unsolved("AssertionError", <<>>)
       ELSE With(Get(kwargs.hash160_lookup, hash160(self.payee_sec)),
                 LAMBDA private_key :
              IF private_key = None THEN Unsolved("TypeError", <<>>)
              ELSE With(_create_sig(private_key, kwargs), LAMBDA payee_sig :
                     Solved(compile(COMMIT_SCRIPTSIG(
                              PyStr(b2h(payer_sig)), PyStr(b2h(payee_sig)))),
                            <<payee_sig>>))))))))

\* _AbsDepositScript.solve_finalize_commit
solve_finalize_commit(self, kwargs) ==
  LET signature_type == kwargs.signature_type
      existing_script == kwargs.existing_script
  IN TrySolve(_compile_commit_scriptsig(DEADBEEF_STR, DEADBEEF_STR,
                                        b2h(self.script)),
              <<>>, LAMBDA reference_script_hex :
     TrySolve(_validate(reference_script_hex, b2h(existing_script)),
              <<>>, LAMBDA none :
     With(get_opcode(existing_script, 0), LAMBDA w0 :
     With(get_opcode(existing_script, w0.pc).data, LAMBDA payer_sig :
     With(parse_signature_blob(payer_sig), LAMBDA parsed :
       IF parsed.exc = "UnexpectedDER"
         THEN Unsolved("InvalidPayerSignature", <<>>)
       ELSE IF parsed.exc # "ok" THEN Unsolved(parsed.exc, <<>>)
       ELSE IF signature_type # parsed.val.signature_type
         THEN Unsolved("AssertionError", <<>>)
       ELSE IF ~ecdsa_verify(self.payer_sec,
                             signature_hash(signature_type,
                                            kwargs.script_to_hash),
                             parsed.val.sig_r_s)
         THEN Unsolved("InvalidPayerSignature", <<>>)
       ELSE With(Get(kwargs.hash160_lookup, hash160(self.payee_sec)),
                 LAMBDA private_key :
              IF private_key = None THEN Unsolved("TypeError", <<>>)
              ELSE With(_create_sig(private_key, kwargs), LAMBDA payee_sig :
                     Solved(compile(COMMIT_SCRIPTSIG(
                              PyStr(b2h(payer_sig)), PyStr(b2h(payee_sig)))),
                            <<payee_sig>>))))))))

\* _AbsDepositScript.solve
_AbsDepositScript_solve(self, kwargs) ==
  CASE kwargs.spend_type = "expire" -> solve_expire(self, kwargs)
    [] kwargs.spend_type = "change" -> solve_change(self, kwargs)
    [] kwargs.spend_type = "create_commit" ->
         solve_create_commit(self, kwargs)
    [] kwargs.spend_type = "finalize_commit" ->
         solve_finalize_commit(self, kwargs)
    [] OTHER -> Unsolved("KeyError", <<>>)

\* -------------------------------------------------- the commit matcher

\* _AbsCommitScript.__init__
_AbsCommitScript(delay_time, spend_secret_hash, payee_sec, payer_sec, revoke_secret_hash) ==
  [cls |-> "CommitScript", delay_time |-> delay_time,
   spend_secret_hash |-> spend_secret_hash, payee_sec |-> payee_sec,
   payer_sec |-> payer_sec, revoke_secret_hash |-> revoke_secret_hash,
   script |-> h2b(compile_commit_script(
                PyStr(b2h(payer_sec)), PyStr(b2h(payee_sec)),
                PyStr(spend_secret_hash), PyStr(revoke_secret_hash),
                PyInt(delay_time)))]

\* _AbsCommitScript.from_script(cls, script)
_AbsCommitScript_from_script(cls, script) ==
  Try(match(cls, script), LAMBDA r :
    IF r = NoMatch THEN Raise("ValueError")
    ELSE Try(get_commit_delay_time(b2h(cls.TEMPLATE)), LAMBDA delay_time :
           LET spend_secret_hash == b2h(r.PUBKEYHASH_LIST[1])
               payee_sec == r.PUBKEY_LIST[1]
               revoke_secret_hash == b2h(r.PUBKEYHASH_LIST[2])
               payer_sec == r.PUBKEY_LIST[2]
           IN With(_AbsCommitScript(delay_time, spend_secret_hash, payee_sec,
                                    payer_sec, revoke_secret_hash),
                   LAMBDA obj :
                IF obj.script # script THEN Raise("AssertionError")
                ELSE Ok(obj))))

\* _AbsCommitScript.solve_payout
solve_payout(self, kwargs) ==
  With(Get(kwargs.hash160_lookup, hash160(self.payee_sec)),
       LAMBDA private_key :
    IF private_key = None THEN Unsolved("TypeError", <<>>)
    ELSE With(_create_sig(private_key, kwargs), LAMBDA sig :
           Solved(compile(PAYOUT_SCRIPTSIG(PyStr(b2h(sig)),
                                           PyStr(kwargs.spend_secret))),
                  <<sig>>)))

\* _AbsCommitScript.solve_revoke
solve_revoke(self, kwargs) ==
  With(Get(kwargs.hash160_lookup, hash160(self.payer_sec)),
       LAMBDA private_key :
    IF private_key = None THEN Unsolved("TypeError", <<>>)
    ELSE With(_create_sig(private_key, kwargs), LAMBDA sig :
           Solved(compile(REVOKE_SCRIPTSIG(PyStr(b2h(sig)),
                                           PyStr(kwargs.revoke_secret))),
                  <<sig>>)))

\* _AbsCommitScript.solve
_AbsCommitScript_solve(self, kwargs) ==
  CASE kwargs.spend_type = "payout" -> solve_payout(self, kwargs)
    [] kwargs.spend_type = "revoke" -> solve_revoke(self, kwargs)
    [] OTHER -> Unsolved("KeyError", <<>>)

\* ------------------------------------------------- the library's signer

\* what script_obj_from_script returns when no class matches: None
NoneObj == [cls |-> "NoneType"]

\* ScriptMultisig.from_script reads "m <keys> n OP_CHECKMULTISIG"
ScriptMultisig_from_script(script) ==
  IF Len(script) = 0 THEN Raise("ValueError")
  ELSE With(Words(script), LAMBDA ws :
         IF /\ ws[1].opcode \in 81..95
            /\ Len(ws) >= 3
            /\ ws[Len(ws)].opcode = OPCODE_TO_INT.OP_CHECKMULTISIG
            /\ ws[Len(ws)].to = Len(script)
            /\ ws[1].opcode <= ws[Len(ws) - 1].opcode
            /\ ws[Len(ws) - 1].opcode - 80 = Len(ws) - 3
            /\ \A i \in 2..(Len(ws) - 2) :
                 ws[i].data # None /\ Len(ws[i].data) \in 33..120
           THEN Ok([cls |-> "ScriptMultisig"])
           ELSE Raise("ValueError"))

\* sc.from_script(script) for a class sc of the registry
from_script(sc, script) ==
  CASE sc.cls = "DepositScript" -> _AbsDepositScript_from_script(sc, script)
    [] sc.cls = "CommitScript" -> _AbsCommitScript_from_script(sc, script)
    [] sc.cls = "ScriptMultisig" -> ScriptMultisig_from_script(script)
    [] OTHER ->
         Try(match(sc, script), LAMBDA r :
           Ok([cls |-> sc.cls,
               hash160 |-> IF r.PUBKEYHASH_LIST = <<>> THEN <<>>
                           ELSE r.PUBKEYHASH_LIST[1]]))

\* script_obj_from_script(script): the first class of SUBCLASSES whose
\* from_script does not raise ValueError; None when there is none.  The
\* list is read in one step.
RECURSIVE script_obj_from_script(_, _)
script_obj_from_script(registry, script) ==
  IF registry = <<>> THEN Ok(NoneObj)
  ELSE With(from_script(Head(registry), script), LAMBDA st :
         IF st.exc = "ValueError"
           THEN script_obj_from_script(Tail(registry), script)
           ELSE st)

\* ScriptPayToAddress.solve: sign for the key of the address
ScriptPayToAddress_solve(self, kwargs) ==
  With(Get(kwargs.hash160_lookup, self.hash160), LAMBDA result :
    IF result = None THEN Unsolved("SolvingError", <<>>)
    ELSE With(create_script_signature(result, kwargs.signature_type,
                                      kwargs.script_to_hash),
              LAMBDA binary_signature :
           Solved(write_push_data(binary_signature)
                    \o write_push_data(result),
                  <<binary_signature>>)))

\* the_script.solve(**kwargs) for the object script_obj_from_script gave;
\* ScriptPayToScript.solve looks the underlying script up in p2sh_lookup,
\* solves it with the class script_obj_from_script finds for it and
\* appends the push of the underlying script
RECURSIVE solve(_, _, _)
solve(self, kwargs, registry) ==
  CASE self.cls = "NoneType" -> Unsolved("AttributeError", <<>>)
    [] self.cls = "DepositScript" -> _AbsDepositScript_solve(self, kwargs)
    [] self.cls = "CommitScript" -> _AbsCommitScript_solve(self, kwargs)
    [] self.cls = "ScriptPayToAddress" ->
         ScriptPayToAddress_solve(self, kwargs)
    [] self.cls = "ScriptPayToScript" ->
         With(Get(kwargs.p2sh_lookup, self.hash160),
              LAMBDA underlying_script :
           IF DOMAIN kwargs.p2sh_lookup = {} \/ underlying_script = None
             THEN Unsolved("ValueError", <<>>)
           ELSE TrySolve(script_obj_from_script(registry, underlying_script),
                         <<>>, LAMBDA script_obj :
                  With(solve(script_obj,
                             [kwargs EXCEPT
                                !.script_to_hash = underlying_script],
                             registry),
                       LAMBDA underlying_solution :
                    IF underlying_solution.exc # "ok"
                      THEN underlying_solution
                      ELSE Solved(underlying_solution.val
                                    \o write_push_data(underlying_script),
                                  underlying_solution.created))))
    [] OTHER -> Unsolved("SolvingError", <<>>)

\* Tx.solve(hash160_lookup, 0, tx_out_script, **kwargs)
Tx_solve(tx, kwargs, registry) ==
  LET tx_out_script == tx.unspent_script
      is_p2h == /\ Len(tx_out_script) = 23
                /\ tx_out_script[1] = OPCODE_TO_INT.OP_HASH160
                /\ tx_out_script[23] = OPCODE_TO_INT.OP_EQUAL
      p2sh_lookup == kwargs.p2sh_lookup
  IN TrySolve(IF is_p2h
                THEN Try(from_script(BuiltinSubclasses[4], tx_out_script),
                         LAMBDA p2s :
                       IF DOMAIN p2sh_lookup = {}
                            \/ p2s.hash160 \notin DOMAIN p2sh_lookup
                         THEN Raise("ValueError")
                         ELSE Ok(p2sh_lookup[p2s.hash160]))
                ELSE Ok(tx_out_script),
              <<>>, LAMBDA script_to_hash :
       TrySolve(script_obj_from_script(registry, tx_out_script),
                <<>>, LAMBDA the_script :
         solve(the_script,
               [kwargs EXCEPT !.signature_type = SIGHASH_ALL,
                              !.existing_script = tx.script,
                              !.script_to_hash = script_to_hash],
               registry)))

\* ---------------------------------------------- signature verification

\* the value a word of a scriptSig pushes, None if it pushes nothing
PushValue(w) ==
  IF w.data # None THEN w.data
  ELSE IF w.opcode \in 81..96 THEN <<w.opcode - 80>> ELSE None

Truthy(v) == \E i \in 1..Len(v) : v[i] # 0

\* OP_CHECKSIG: the blob is a DER signature by pubkey of the hash of
\* script_code under the blob's hash type
CheckSig(blob, pubkey, script_code) ==
  /\ Len(blob) >= 1
  /\ pubkey # None
  /\ Len(pubkey) >= 2
  /\ IsDER(SubSeq(blob, 1, Len(blob) - 1))
  /\ ecdsa_verify(pubkey, signature_hash(blob[Len(blob)], script_code),
                  SubSeq(blob, 1, Len(blob) - 1))

\* the deposit script run on the pushed values: 2-of-2 multisig if the top
\* is true, else hash lock and payer signature if the next is true, else
\* (OP_NOP3 does nothing) payer signature
EvalDeposit(script_bin, stack) ==
  With(Words(script_bin), LAMBDA ws :
    LET n == Len(stack)
    IN IF n >= 1 /\ Truthy(stack[n])
         THEN /\ n = 4
              /\ CheckSig(stack[2], ws[3].data, script_bin)
              /\ CheckSig(stack[3], ws[4].data, script_bin)
       ELSE IF n >= 2 /\ Truthy(stack[n - 1])
         THEN /\ n = 4
              /\ hash160(stack[2]) = ws[10].data
              /\ CheckSig(stack[1], ws[12].data, script_bin)
       ELSE /\ n = 3
            /\ CheckSig(stack[1], ws[18].data, script_bin))

\* the commit script run on the pushed values: spend hash lock and payee
\* signature if the top is true, else revoke hash lock and payer signature
EvalCommit(script_bin, stack) ==
  With(Words(script_bin), LAMBDA ws :
    /\ Len(stack) = 3
    /\ IF Truthy(stack[3])
         THEN /\ hash160(stack[2]) = ws[6].data
              /\ CheckSig(stack[1], ws[8].data, script_bin)
         ELSE /\ hash160(stack[2]) = ws[12].data
              /\ CheckSig(stack[1], ws[14].data, script_bin))

\* Tx.is_signature_ok(0): the script of the input satisfies the script of
\* the spent output, pay-to-address or pay-to-script-hash of a deposit or
\* commit script
is_signature_ok(tx) ==
  With(Words(tx.script), LAMBDA ws :
  With(Tuple([i \in 1..Len(ws) |-> PushValue(ws[i])], Len(ws)),
       LAMBDA stack :
  With(match(BuiltinSubclasses[4], tx.unspent_script), LAMBDA p2s :
  With(match(BuiltinSubclasses[3], tx.unspent_script), LAMBDA p2a :
    LET n == Len(stack)
    IN /\ n >= 2
       /\ \A i \in 1..n : stack[i] # None
       /\ IF p2s.exc = "ok"
            THEN /\ hash160(stack[n]) = p2s.val.PUBKEYHASH_LIST[1]
                 /\ IF _validate(DepositReferenceHex,
                                 b2h(stack[n])).exc = "ok"
                      THEN EvalDeposit(stack[n], SubSeq(stack, 1, n - 1))
                    ELSE IF _validate(CommitReferenceHex,
                                      b2h(stack[n])).exc = "ok"
                      THEN EvalCommit(stack[n], SubSeq(stack, 1, n - 1))
                    ELSE FALSE
          ELSE IF p2a.exc = "ok"
            THEN /\ n = 2
                 /\ hash160(stack[2]) = p2a.val.PUBKEYHASH_LIST[1]
                 /\ CheckSig(stack[1], stack[2], tx.unspent_script)
          ELSE FALSE))))

\* Tx.bad_signature_count()
bad_signature_count(tx) == IF is_signature_ok(tx) THEN 0 ELSE 1

\* Tx.sign(hash160_lookup, **kwargs): an input that is signed already is
\* left alone; a SolvingError of the solver is swallowed, any other
\* exception is raised
Tx_sign(tx, kwargs, registry) ==
  IF is_signature_ok(tx)
    THEN [exc |-> "ok", tx |-> tx, created |-> <<>>]
    ELSE With(Tx_solve(tx, kwargs, registry), LAMBDA s :
           IF s.exc = "ok"
             THEN [exc |-> "ok", tx |-> [tx EXCEPT !.script = s.val],
                   created |-> s.created]
           ELSE IF s.exc = "SolvingError"
             THEN [exc |-> "ok", tx |-> tx, created |-> s.created]
           ELSE [exc |-> s.exc, tx |-> tx, created |-> s.created])

\* ------------------------------------------------- the script handlers

\* _DepositScriptHandler.__init__(expire_time): a new class DepositScript
_DepositScriptHandler(expire_time, id) ==
  ScriptClass("DepositScript",
              h2b(compile_deposit_script(
                    Name("OP_PUBKEY"), Name("OP_PUBKEY"),
                    Name("OP_PUBKEYHASH"), PyInt(expire_time))),
              id)

\* _CommitScriptHandler.__init__(delay_time): a new class CommitScript
_CommitScriptHandler(delay_time, id) ==
  ScriptClass("CommitScript",
              h2b(compile_commit_script(
                    Name("OP_PUBKEY"), Name("OP_PUBKEY"),
                    Name("OP_PUBKEYHASH"), Name("OP_PUBKEYHASH"),
                    PyInt(delay_time))),
              id)

\* __enter__ of both handlers: SUBCLASSES.insert(0, self.script_handler)
__enter__(registry, script_handler) == <<script_handler>> \o registry

\* __exit__ popping only when the block raised nothing
__exit___on_success(registry, type) ==
  IF type # "ok" THEN registry ELSE Tail(registry)

\* __exit__ of both handlers, whatever the exception type:
\* SUBCLASSES.pop(0)
__exit__(registry, type) == Tail(registry)

\* --------------------------------------------- arguments of sign calls

SIGHASH_NONE == 2

SPEND_SECRET == b2h(Rep(83, 32))

REVOKE_SECRET == b2h(Rep(132, 32))

\* the script with the word at index replaced by the bytes of another word
WithWord(script_hex, index, word) ==
  With(h2b(script_hex), LAMBDA bin :
    With(Words(bin)[index + 1], LAMBDA w :
      b2h(SubSeq(bin, 1, w.from) \o word
            \o SubSeq(bin, w.to + 1, Len(bin)))))

DepositScriptHex(expire_time) ==
  compile_deposit_script(PyStr(b2h(PAYER_SEC)), PyStr(b2h(PAYEE_SEC)),
                         PyStr(b2h(hash160(h2b(SPEND_SECRET)))),
                         PyInt(expire_time))

CommitScriptHex(delay_time) ==
  compile_commit_script(PyStr(b2h(PAYER_SEC)), PyStr(b2h(PAYEE_SEC)),
                        PyStr(b2h(hash160(h2b(SPEND_SECRET)))),
                        PyStr(b2h(hash160(h2b(REVOKE_SECRET)))),
                        PyInt(delay_time))

SignTimes == {16, 1000}

ValidDeposits == {DepositScriptHex(t) : t \in SignTimes}

ValidCommits == {CommitScriptHex(t) : t \in SignTimes}

\* deposit scripts given to the sign calls: the valid ones; one with a time
\* above MAX_SEQUENCE; one whose time word is OP_NOP3; one with OP_ELSE for
\* the leading OP_IF; one with OP_DUP for the first payer key; one with the
\* payee key at the second payer position
DepositArgs ==
  ValidDeposits \cup
  { DepositScriptHex(MAX_SEQUENCE + 1),
    WithWord(DepositScriptHex(1000), 14, <<OPCODE_TO_INT.OP_NOP3>>),
    WithWord(DepositScriptHex(1000), 0, <<OPCODE_TO_INT.OP_ELSE>>),
    WithWord(DepositScriptHex(1000), 2, <<OPCODE_TO_INT.OP_DUP>>),
    WithWord(DepositScriptHex(1000), 11, write_push_data(PAYEE_SEC)) }

\* commit scripts given to the sign calls
CommitArgs ==
  ValidCommits \cup
  { CommitScriptHex(MAX_SEQUENCE + 1),
    WithWord(CommitScriptHex(1000), 1, <<OPCODE_TO_INT.OP_NOP3>>),
    WithWord(CommitScriptHex(1000), 0, <<OPCODE_TO_INT.OP_ELSE>>) }

\* the output scripts the transactions spend
PayToScript(script_bin) ==
  compile(<<Name("OP_HASH160"), PyStr(b2h(hash160(script_bin))),
            Name("OP_EQUAL")>>)

PayToAddress(key_sec) ==
  compile(<<Name("OP_DUP"), Name("OP_HASH160"),
            PyStr(b2h(hash160(key_sec))), Name("OP_EQUALVERIFY"),
            Name("OP_CHECKSIG")>>)

\* payer signatures found in a commit transaction to finalize: the payer's
\* SIGHASH_ALL signature; the same with a first byte that is no DER
\* sequence tag; the payee's signature; the payer's signature of hash type
\* SIGHASH_NONE; the payer's SIGHASH_ALL signature with the type byte of
\* SIGHASH_NONE
PayerSigs(script_bin) ==
  With(create_script_signature(PAYER_SEC, SIGHASH_ALL, script_bin),
       LAMBDA sig :
    { sig,
      [sig EXCEPT ![1] = 49],
      create_script_signature(PAYEE_SEC, SIGHASH_ALL, script_bin),
      create_script_signature(PAYER_SEC, SIGHASH_NONE, script_bin),
      [sig EXCEPT ![Len(sig)] = SIGHASH_NONE] })

\* the scripts of input 0 of a commit transaction to finalize: what
\* sign_created_commit leaves, for each payer signature, and none
ExistingScripts(script_hex) ==
  { compile(COMMIT_SCRIPTSIG(PyStr(b2h(sig)),
                             PyStr(b2h(DEFAULT_PLACEHOLDER_SIGNATURE))))
      \o write_push_data(h2b(script_hex)) :
    sig \in PayerSigs(h2b(script_hex)) } \cup {<<>>}

Wifs == {PAYER_SEC, PAYEE_SEC}

SignInput(op, wif, rawtx, script_hex, secret) ==
  [op |-> op, wif |-> wif, rawtx |-> rawtx, script_hex |-> script_hex,
   secret |-> secret]

Unsigned(script_hex) == Tx(PayToScript(h2b(script_hex)), <<>>)

Inputs ==
  {SignInput("sign_deposit", wif, Tx(PayToAddress(PAYER_SEC), <<>>),
             <<>>, <<>>) : wif \in Wifs}
  \cup {SignInput(op, wif, Unsigned(d), d, <<>>) :
          op \in {"sign_created_commit", "sign_expire_recover"},
          wif \in Wifs, d \in DepositArgs}
  \cup UNION {{SignInput("sign_finalize_commit", wif,
                         Tx(PayToScript(h2b(d)), e), d, <<>>) :
                 wif \in Wifs, e \in ExistingScripts(d)} : d \in DepositArgs}
  \cup {SignInput("sign_change_recover", wif, Unsigned(d), d, secret) :
          wif \in Wifs, d \in DepositArgs, secret \in Secrets}
  \cup {SignInput(op, wif, Unsigned(c), c, secret) :
          op \in {"sign_payout_recover", "sign_revoke_recover"},
          wif \in Wifs, c \in CommitArgs, secret \in Secrets}

\* the calls two threads make at the same time
ConcInputs ==
  { SignInput("sign_expire_recover", PAYER_SEC,
              Unsigned(DepositScriptHex(1000)), DepositScriptHex(1000),
              <<>>),
    SignInput("sign_change_recover", PAYER_SEC,
              Unsigned(DepositScriptHex(16)), DepositScriptHex(16),
              SPEND_SECRET),
    SignInput("sign_payout_recover", PAYEE_SEC,
              Unsigned(CommitScriptHex(1000)), CommitScriptHex(1000),
              SPEND_SECRET) }

\* ------------------------------------------------------ the sign calls

DepositOps == {"sign_created_commit", "sign_finalize_commit",
               "sign_change_recover", "sign_expire_recover"}

CommitOps == {"sign_revoke_recover", "sign_payout_recover"}

\* the largest registry a call is started with
MaxRegistry == 8

\* the first statement of every sign function but sign_deposit:
\* validate_deposit_script or validate_commit_script of the script given
validate_script(op, script_hex) ==
  IF op \in DepositOps THEN validate_deposit_script(script_hex, TRUE)
  ELSE validate_commit_script(script_hex, TRUE)

\* sign_change_recover without the assertion on the secret
sign_change_recover_no_precondition(deposit_script_hex, spend_secret) ==
  Try(get_deposit_spend_secret_hash(deposit_script_hex),
      LAMBDA spend_secret_hash : Ok(None))

\* sign_change_recover, before _sign_deposit_recover: the hash of the
\* secret given is the spend_secret_hash of the script
sign_change_recover_precondition(deposit_script_hex, spend_secret) ==
  Try(get_deposit_spend_secret_hash(deposit_script_hex),
      LAMBDA spend_secret_hash :
    LET provided_spend_secret_hash == b2h(hash160(h2b(spend_secret)))
    IN IF provided_spend_secret_hash # spend_secret_hash
         THEN Raise("AssertionError")
         ELSE Ok(None))

\* the time the handler is made with
handler_time(op, script_hex) ==
  IF op \in DepositOps THEN get_deposit_expire_time(script_hex)
  ELSE get_commit_delay_time(script_hex)

\* the keyword arguments of tx.sign
spend_type(op) ==
  CASE op = "sign_created_commit" -> "create_commit"
    [] op = "sign_finalize_commit" -> "finalize_commit"
    [] op = "sign_change_recover" -> "change"
    [] op = "sign_expire_recover" -> "expire"
    [] op = "sign_payout_recover" -> "payout"
    [] op = "sign_revoke_recover" -> "revoke"
    [] OTHER -> "none"

sign_kwargs(c) ==
  With(IF c.op = "sign_deposit"
         THEN [hash160_lookup |-> build_hash160_lookup({c.wif}),
               p2sh_lookup |-> <<>>]
         ELSE _make_lookups(c.wif, c.script_hex),
       LAMBDA lookups :
    [hash160_lookup |-> lookups.hash160_lookup,
     p2sh_lookup |-> lookups.p2sh_lookup,
     spend_type |-> spend_type(c.op),
     spend_secret |->
       IF c.op \in {"sign_change_recover", "sign_payout_recover"}
         THEN c.secret ELSE None,
     revoke_secret |->
       IF c.op = "sign_revoke_recover" THEN c.secret ELSE None,
     signature_type |-> SIGHASH_ALL,
     existing_script |-> <<>>,
     script_to_hash |-> <<>>])

Raised(c, exc) == [c EXCEPT !.pc = "done", !.exc = exc]

\* a thread calls a sign function
BeginCall(t, in) ==
  /\ calls[t].pc = "idle"
  /\ Len(SUBCLASSES) < MaxRegistry
  /\ calls' = [calls EXCEPT ![t] =
       [IdleCall EXCEPT !.pc = IF in.op = "sign_deposit" THEN "load"
                                ELSE "validate",
                        !.op = in.op, !.wif = in.wif, !.rawtx = in.rawtx,
                        !.script_hex = in.script_hex, !.secret = in.secret]]
  /\ UNCHANGED <<build, scriptVars, SUBCLASSES>>

\* validate_deposit_script / validate_commit_script of the script given
CheckScript(t) ==
  LET c == calls[t]
  IN /\ c.pc = "validate"
     /\ calls' = [calls EXCEPT ![t] =
          With(validate_script(c.op, c.script_hex), LAMBDA v :
            IF v.exc # "ok" THEN Raised(c, v.exc)
            ELSE [c EXCEPT !.pc = IF c.op = "sign_change_recover"
                                    THEN "precondition" ELSE "load"])]
     /\ UNCHANGED <<build, scriptVars, SUBCLASSES>>

\* sign_change_recover: the assert on the hash of the spend secret
CheckPreimage(t) ==
  LET c == calls[t]
  IN /\ c.pc = "precondition"
     /\ calls' = [calls EXCEPT ![t] =
          With(sign_change_recover_precondition(c.script_hex, c.secret),
               LAMBDA p :
            IF p.exc # "ok" THEN Raised(c, p.exc)
            ELSE [c EXCEPT !.pc = "load"])]
     /\ UNCHANGED <<build, scriptVars, SUBCLASSES>>

\* load_tx, the time of the script, _make_lookups and the constructor of
\* the handler
LoadTx(t) ==
  LET c == calls[t]
  IN /\ c.pc = "load"
     /\ calls' = [calls EXCEPT ![t] =
          IF c.op = "sign_deposit"
            THEN [c EXCEPT !.pc = "sign", !.tx = c.rawtx, !.loaded = TRUE]
          ELSE With(handler_time(c.op, c.script_hex), LAMBDA time :
            IF time.exc # "ok"
              THEN [Raised(c, time.exc) EXCEPT !.tx = c.rawtx,
                                               !.loaded = TRUE]
            ELSE [c EXCEPT !.pc = "enter", !.tx = c.rawtx, !.loaded = TRUE,
                           !.script_handler =
                              IF c.op \in DepositOps
                                THEN _DepositScriptHandler(time.val, t)
                                ELSE _CommitScriptHandler(time.val, t)])]
     /\ UNCHANGED <<build, scriptVars, SUBCLASSES>>

\* with handler: __enter__
EnterScope(t) ==
  LET c == calls[t]
  IN /\ c.pc = "enter"
     /\ SUBCLASSES' = __enter__(SUBCLASSES, c.script_handler)
     /\ calls' = [calls EXCEPT ![t] = [c EXCEPT !.pc = "sign",
                                                !.pushed = TRUE]]
     /\ UNCHANGED <<build, scriptVars>>

\* tx.sign(...); sign_deposit returns after it
SignTx(t) ==
  LET c == calls[t]
  IN /\ c.pc = "sign"
     /\ calls' = [calls EXCEPT ![t] =
          With(Tx_sign(c.tx, sign_kwargs(c), SUBCLASSES), LAMBDA s :
            [c EXCEPT !.pc = IF c.op = "sign_deposit" THEN "done"
                             ELSE "exit",
                      !.tx = s.tx, !.exc = s.exc, !.signer = TRUE,
                      !.created = s.created,
                      !.out = IF c.op = "sign_deposit" /\ s.exc = "ok"
                                THEN s.tx ELSE None])]
     /\ UNCHANGED <<build, scriptVars, SUBCLASSES>>

\* the end of the with block: __exit__, then the exception of the block
\* is raised; sign_created_commit returns
ExitScope(t) ==
  LET c == calls[t]
  IN /\ c.pc = "exit"
     /\ SUBCLASSES' = __exit__(SUBCLASSES, c.exc)
     /\ calls' = [calls EXCEPT ![t] =
          IF c.exc # "ok" THEN [c EXCEPT !.pc = "done"]
          ELSE IF c.op = "sign_created_commit"
            THEN [c EXCEPT !.pc = "done", !.out = c.tx]
          ELSE [c EXCEPT !.pc = "assert"]]
     /\ UNCHANGED <<build, scriptVars>>

\* assert(tx.bad_signature_count() == 0); return tx.as_hex()
CheckSigned(t) ==
  LET c == calls[t]
  IN /\ c.pc = "assert"
     /\ calls' = [calls EXCEPT ![t] =
          IF bad_signature_count(c.tx) # 0 THEN Raised(c, "AssertionError")
          ELSE [c EXCEPT !.pc = "done", !.out = c.tx]]
     /\ UNCHANGED <<build, scriptVars, SUBCLASSES>>

\* the caller has the result or the exception
ReturnCall(t) ==
  /\ calls[t].pc = "done"
  /\ calls' = [calls EXCEPT ![t] = IdleCall]
  /\ UNCHANGED <<build, scriptVars, SUBCLASSES>>

Init == ScriptInit

\* one thread makes sign calls, one at a time
MainThread == "A"

Next ==
  \/ \E in \in Inputs : BeginCall(MainThread, in)
  \/ CheckScript(MainThread)
  \/ CheckPreimage(MainThread)
  \/ LoadTx(MainThread)
  \/ EnterScope(MainThread)
  \/ SignTx(MainThread)
  \/ ExitScope(MainThread)
  \/ CheckSigned(MainThread)
  \/ ReturnCall(MainThread)

Spec == Init /\ [][Next]_vars

\* two threads make sign calls; a step of a call is a step of its thread
NextConc ==
  \/ \E t \in Threads, in \in ConcInputs : BeginCall(t, in)
  \/ \E t \in Threads : CheckScript(t)
  \/ \E t \in Threads : CheckPreimage(t)
  \/ \E t \in Threads : LoadTx(t)
  \/ \E t \in Threads : EnterScope(t)
  \/ \E t \in Threads : SignTx(t)
  \/ \E t \in Threads : ExitScope(t)
  \/ \E t \in Threads : CheckSigned(t)
  \/ \E t \in Threads : ReturnCall(t)

SpecConc == Init /\ [][NextConc]_vars

\* ------------------------------------------------------------ claims

\* C1: compiling a deposit (commit) script and applying each accessor to
\* the compiled script returns exactly the compile arguments, for every
\* sampled key, hash and time of 0..0xFFFF.
C1_RoundTrip ==
  origin.pristine =>
    /\ res.op \in {"get_deposit_payer_pubkey", "get_commit_payer_pubkey"}
         => res.out = Ok(origin.payer_pubkey)
    /\ res.op \in {"get_deposit_payee_pubkey", "get_commit_payee_pubkey"}
         => res.out = Ok(origin.payee_pubkey)
    /\ res.op \in {"get_deposit_spend_secret_hash",
                   "get_commit_spend_secret_hash"}
         => res.out = Ok(origin.spend_secret_hash)
    /\ res.op = "get_commit_revoke_secret_hash"
         => res.out = Ok(origin.revoke_secret_hash)
    /\ res.op \in {"get_deposit_expire_time", "get_commit_delay_time"}
         => res.out.exc = "ok" /\ res.out.val = origin.time

C1_Witness ==
  /\ origin.pristine
  /\ origin.kind = "commit"
  /\ origin.time = MAX_SEQUENCE
  /\ origin.payer_pubkey # origin.payee_pubkey
  /\ res.op = "get_commit_payer_pubkey"
  /\ res.out = Ok(origin.payer_pubkey)

\* the reference scripts, in binary
DepositReference == h2b(DepositReferenceHex)

CommitReference == h2b(CommitReferenceHex)

ReferenceOf(op) ==
  IF op = "validate_deposit_script" THEN DepositReference ELSE CommitReference

IsWildcard(w) == w.data # None /\ b2h(w.data) = DEADBEEF

SameWord(a, b) == a.opcode = b.opcode /\ a.data = b.data

\* the candidate differs from the reference at a non-wildcard word, or
\* has another number of words
Deviates(ref, cand) ==
  LET rw == Words(ref)
      cw == Words(cand)
  IN \/ Len(rw) # Len(cw)
     \/ \E i \in 1..Min(Len(rw), Len(cw)) :
          ~IsWildcard(rw[i]) /\ ~SameWord(rw[i], cw[i])

IsValidate == res.op \in {"validate_deposit_script", "validate_commit_script"}

\* C2: a candidate that differs from the reference at a non-wildcard word
\* position, or has fewer or more words than the reference, is rejected
\* by validate_deposit_script / validate_commit_script with InvalidScript.
C2_DeviationRejected ==
  (IsValidate /\ Deviates(ReferenceOf(res.op), h2b(theScript)))
    => res.out.exc = "InvalidScript"

C2_Witness ==
  /\ res.op = "validate_deposit_script"
  /\ origin.kind = "deposit"
  /\ ~origin.pristine
  /\ Len(Words(h2b(theScript))) = Len(Words(DepositReference))
  /\ Deviates(DepositReference, h2b(theScript))
  /\ res.out.exc = "InvalidScript"

\* a word that pushes nothing: no data push and no small-integer opcode
PushesNothing(w) == w.data = None /\ w.opcode \notin 81..96

\* the candidate has a word that pushes nothing in a wildcard slot
NonPushInSlot(ref, cand) ==
  LET rw == Words(ref)
      cw == Words(cand)
  IN \E i \in 1..Min(Len(rw), Len(cw)) :
       IsWildcard(rw[i]) /\ PushesNothing(cw[i])

\* C8: a candidate with a non-push opcode (OP_DUP, OP_CHECKSIG) in a
\* pubkey, secret-hash or time slot is rejected with InvalidScript.
C8_NonPushRejected ==
  (IsValidate /\ NonPushInSlot(ReferenceOf(res.op), h2b(theScript)))
    => res.out.exc = "InvalidScript"

\* the integer a direct push encodes: the little-endian value of the
\* bytes with the top bit of the last byte as the sign
RECURSIVE Pow256(_)
Pow256(n) == IF n = 0 THEN 1 ELSE 256 * Pow256(n - 1)

RECURSIVE LittleEndian(_, _)
LittleEndian(d, i) ==
  IF i > Len(d) THEN 0
  ELSE (IF i = Len(d) THEN d[i] % 128 ELSE d[i]) * Pow256(i - 1)
         + LittleEndian(d, i + 1)

ScriptNumber(d) ==
  IF Len(d) > 0 /\ d[Len(d)] >= 128 THEN 0 - LittleEndian(d, 1)
  ELSE LittleEndian(d, 1)

HasSequenceValue(opcode) == opcode = 0 \/ opcode \in 1..75 \/ opcode \in 81..96

SequenceValueOf(opcode, data) ==
  CASE opcode = 0 -> 0
    [] opcode \in 1..75 -> ScriptNumber(data)
    [] OTHER -> opcode - 80

\* C3: _parse_sequence_value returns 0 for OP_0, opcode - 80 for
\* OP_1..OP_16 and the little-endian integer of a direct push when that
\* integer is in 0..0xFFFF; it raises InvalidSequenceValue for a decoded
\* value of 0x10000 and above or below 0, and never returns a value
\* outside 0..0xFFFF.
C3_SequenceRange ==
  res.op = "_parse_sequence_value" =>
    LET o == res.arg.opcode
        d == res.arg.data
    IN /\ res.out.exc = "ok" => res.out.val \in 0..MAX_SEQUENCE
       /\ ~HasSequenceValue(o) => res.out.exc # "ok"
       /\ HasSequenceValue(o) =>
            IF SequenceValueOf(o, d) \in 0..MAX_SEQUENCE
              THEN res.out.exc = "ok" /\ res.out.val = SequenceValueOf(o, d)
              ELSE res.out.exc = "InvalidSequenceValue"

C3_Witness ==
  /\ res.op = "_parse_sequence_value"
  /\ res.arg = [opcode |-> 3, data |-> <<0, 0, 1>>]
  /\ res.out.exc = "InvalidSequenceValue"

\* C6: get_spend_secret returns the pushed word 1 of input 0's script when
\* that script is a correctly constructed payout scriptSig, and this is
\* the preimage of the commit script's spend_secret_hash; for any other
\* script of input 0 it returns None without raising.
C6_SpendSecret ==
  res.op = "get_spend_secret" =>
    IF res.arg.payout
      THEN /\ res.out.exc = "ok"
           /\ res.out.val = b2h(SubSeq(res.arg.word1, 2, 33))
           /\ b2h(hash160(h2b(res.out.val))) = origin.spend_secret_hash
      ELSE res.out = Ok(None)

\* the call of the one thread of Spec
TheCall == calls[MainThread]

\* C4: after any sequence of sign calls made one at a time, each returning
\* or raising at any step, SUBCLASSES holds the entries it held before the
\* first call, in the same order.
C4_RegistryRestored ==
  TheCall.pc \in {"idle", "done"} => SUBCLASSES = BuiltinSubclasses

C4_Witness ==
  /\ TheCall.pc = "done"
  /\ TheCall.pushed
  /\ TheCall.exc \notin {"ok", "AssertionError"}
  /\ SUBCLASSES = BuiltinSubclasses

\* the payer signature at word 1 of the script of input 0
EmbeddedPayerSig(tx) == get_opcode(tx.script, get_opcode(tx.script, 0).pc).data

NotDER(sig_blob) == ~IsDER(SubSeq(sig_blob, 1, Len(sig_blob) - 1))

NotVerifying(sig_blob, script_hex) ==
  /\ IsDER(SubSeq(sig_blob, 1, Len(sig_blob) - 1))
  /\ ~ecdsa_verify(h2b(get_deposit_payer_pubkey(script_hex).val),
                   signature_hash(SIGHASH_ALL, h2b(script_hex)),
                   SubSeq(sig_blob, 1, Len(sig_blob) - 1))

OtherSighashType(sig_blob) == sig_blob[Len(sig_blob)] # SIGHASH_ALL

\* a finished sign_finalize_commit of a valid deposit script whose
\* transaction carries a create-commit scriptSig
FinalizeDone ==
  /\ TheCall.op = "sign_finalize_commit"
  /\ TheCall.pc = "done"
  /\ TheCall.script_hex \in ValidDeposits
  /\ TheCall.rawtx.script # <<>>

\* C5: sign_finalize_commit fails with InvalidPayerSignature when the
\* payer signature at word 1 of the existing scriptSig (a) is not DER
\* encoded, (b) is DER but does not verify under the payer pubkey of the
\* deposit script, or (c) has a trailing sighash-type byte other than the
\* signature type of the signing call.
C5_PayerSignatureGate ==
  (/\ FinalizeDone
   /\ \/ NotDER(EmbeddedPayerSig(TheCall.rawtx))
      \/ NotVerifying(EmbeddedPayerSig(TheCall.rawtx), TheCall.script_hex)
      \/ OtherSighashType(EmbeddedPayerSig(TheCall.rawtx)))
    => TheCall.exc = "InvalidPayerSignature"

\* the call was given a script that fails validation
InvalidScriptGiven ==
  /\ TheCall.op \in DepositOps \cup CommitOps
  /\ validate_script(TheCall.op, TheCall.script_hex).exc # "ok"

\* nothing of the signing has happened in the call
NothingSigned(c) ==
  /\ ~c.loaded
  /\ ~c.pushed
  /\ ~c.signer
  /\ c.created = <<>>

\* C7: a sign call given a script that fails validation raises
\* InvalidScript or InvalidSequenceValue before the transaction is loaded,
\* before a matcher is pushed and before the signer is invoked; no
\* signature is made.
C7_RejectBeforeSigning ==
  InvalidScriptGiven =>
    /\ TheCall.pc \in {"validate", "done"}
    /\ NothingSigned(TheCall)
    /\ TheCall.pc = "done"
         => TheCall.exc \in {"InvalidScript", "InvalidSequenceValue"}

\* the matcher of thread t is in the registry
Registered(t) == \E i \in 1..Len(SUBCLASSES) : SUBCLASSES[i].id = t

\* C9: with two sign calls running concurrently, a call about to sign
\* has its own matcher registered, and a call about to leave its scope
\* removes the matcher it inserted.
C9_OwnMatcher ==
  \A t \in Threads :
    /\ (calls[t].pc = "sign" /\ calls[t].pushed) => Registered(t)
    /\ calls[t].pc = "exit" => Head(SUBCLASSES).id = t

\* sign_change_recover was given a valid deposit script and a secret that
\* is not the preimage of its spend_secret_hash
WrongPreimageGiven ==
  /\ TheCall.op = "sign_change_recover"
  /\ validate_script(TheCall.op, TheCall.script_hex).exc = "ok"
  /\ b2h(hash160(h2b(TheCall.secret)))
       # get_deposit_spend_secret_hash(TheCall.script_hex).val

\* C10: sign_change_recover with a valid deposit script and a wrong
\* preimage fails its precondition before the transaction is loaded,
\* before a matcher is registered and before a signature is created; the
\* registry is unchanged.
C10_WrongPreimage ==
  WrongPreimageGiven =>
    /\ TheCall.pc \in {"validate", "precondition", "done"}
    /\ NothingSigned(TheCall)
    /\ TheCall.pc = "done" => TheCall.exc = "AssertionError"
    /\ SUBCLASSES = BuiltinSubclasses

C10_Witness ==
  /\ WrongPreimageGiven
  /\ TheCall.pc = "done"
  /\ TheCall.exc = "AssertionError"
  /\ ~TheCall.loaded
  /\ SUBCLASSES = BuiltinSubclasses

\* the script of input 0 of the transaction given matches the create-commit
\* template OP_0 <sig> <sig> OP_1 <deposit_script> of the script given
ExistingMatches(c) ==
  With(_compile_commit_scriptsig(DEADBEEF_STR, DEADBEEF_STR, c.script_hex),
       LAMBDA reference :
    /\ reference.exc = "ok"
    /\ _validate(reference.val, b2h(c.rawtx.script)).exc = "ok")

\* the payer signature of the transaction given is a push, is DER encoded
\* and verifies under the payer pubkey of the script given
PayerSigVerifies(c) ==
  /\ get_deposit_payer_pubkey(c.script_hex).exc = "ok"
  /\ EmbeddedPayerSig(c.rawtx) # None
  /\ Len(EmbeddedPayerSig(c.rawtx)) >= 1
  /\ ~NotDER(EmbeddedPayerSig(c.rawtx))
  /\ ~NotVerifying(EmbeddedPayerSig(c.rawtx), c.script_hex)

\* a sign_finalize_commit in which tx.sign has run
FinalizeSigned ==
  /\ TheCall.op = "sign_finalize_commit"
  /\ TheCall.signer

\* C11: in sign_finalize_commit a payee signature is created only if the
\* existing scriptSig matched the create-commit template and the payer
\* signature was parsed and verified under the payer pubkey; when one of
\* these fails no payee signature is made, and when a payee signature is
\* made the new scriptSig has the payer signature unchanged at word 1.
C11_FinalizeOrdering ==
  (FinalizeSigned /\ TheCall.created # <<>>) =>
    /\ ExistingMatches(TheCall)
    /\ PayerSigVerifies(TheCall)
    /\ TheCall.exc = "ok"
    /\ EmbeddedPayerSig(TheCall.tx) = EmbeddedPayerSig(TheCall.rawtx)

C11_Witness ==
  /\ FinalizeSigned
  /\ TheCall.pc = "done"
  /\ TheCall.exc = "ok"
  /\ Len(TheCall.created) = 1
  /\ TheCall.tx.script # TheCall.rawtx.script
  /\ EmbeddedPayerSig(TheCall.tx) = EmbeddedPayerSig(TheCall.rawtx)

\* a finished sign_finalize_commit failed at one of the three steps
C11_FailureWitness ==
  /\ FinalizeSigned
  /\ TheCall.pc = "done"
  /\ ExistingMatches(TheCall)
  /\ ~PayerSigVerifies(TheCall)
  /\ TheCall.created = <<>>

\* the 0-based index of the time word of the script validated
TimeIndexOf(op) == IF op = "validate_deposit_script" THEN 14 ELSE 1

\* theScript has the words of the reference of the function applied,
\* whatever stands in the wildcard slots
TemplateShaped == IsValidate /\ ~Deviates(ReferenceOf(res.op), h2b(theScript))

\* the time word of theScript
TimeWord == Words(h2b(theScript))[TimeIndexOf(res.op) + 1]

\* the time word decodes to an integer in 0..0xFFFF
TimeInRange ==
  /\ HasSequenceValue(TimeWord.opcode)
  /\ SequenceValueOf(TimeWord.opcode, TimeWord.data) \in 0..MAX_SEQUENCE

\* C12: a script accepted by validate_deposit_script or
\* validate_commit_script with the time check enabled has a time word that
\* decodes to an integer in 0..0xFFFF; a template-shaped script whose time
\* word does not is rejected with InvalidSequenceValue, and is accepted
\* with the time check disabled.
C12_ValidatedTimeInRange ==
  /\ (IsValidate /\ res.arg.check_time /\ res.out.exc = "ok")
       => TemplateShaped /\ TimeInRange
  /\ (TemplateShaped /\ ~TimeInRange) =>
       IF res.arg.check_time THEN res.out.exc = "InvalidSequenceValue"
       ELSE res.out.exc = "ok"

\* C13: get_word decodes the words in order from offset 0; applied to a
\* script that holds more than index words it returns the opcode and the
\* data of the word at 0-based position index, and applied to a script
\* that holds index or fewer words, the empty script included, it raises
\* ValueError and returns no word.
IsGetWord == res.op = "get_word"

C13_GetWord ==
  IsGetWord =>
    With(Words(res.arg.script_bin), LAMBDA ws :
      IF Len(ws) > res.arg.index
        THEN res.out = Ok([opcode |-> ws[res.arg.index + 1].opcode,
                           data   |-> ws[res.arg.index + 1].data])
        ELSE res.out.exc = "ValueError")

C13_Witness ==
  /\ IsGetWord
  /\ res.arg.index = 14
  /\ Len(Words(res.arg.script_bin)) = 21
  /\ res.out.exc = "ok"
  /\ res.out.val.opcode = 2
  /\ res.out.val.data = <<232, 3>>

C13_EmptyWitness ==
  /\ IsGetWord
  /\ res.arg.script_bin = <<>>
  /\ res.arg.index = 0
  /\ res.out.exc = "ValueError"

C13_ShortWitness ==
  /\ IsGetWord
  /\ Len(Words(res.arg.script_bin)) = res.arg.index
  /\ res.arg.index > 0
  /\ res.out.exc = "ValueError"

\* C14: every script accepted by validate_deposit_script carries the same
\* pubkey at its three payer positions (word indices 2, 11 and 17), so the
\* key get_deposit_payer_pubkey returns is the key of the commit, the
\* change and the expire path.
PayerKeyAt(index) == get_word(h2b(theScript), index).val.data

DepositAccepted ==
  /\ res.op = "validate_deposit_script"
  /\ res.out.exc = "ok"

C14_PayerKeyConsistent ==
  DepositAccepted =>
    /\ PayerKeyAt(2) = PayerKeyAt(11)
    /\ PayerKeyAt(2) = PayerKeyAt(17)
    /\ get_deposit_payer_pubkey(theScript) = Ok(b2h(PayerKeyAt(11)))
    /\ get_deposit_payer_pubkey(theScript) = Ok(b2h(PayerKeyAt(17)))

====
